---- MODULE Spec2Model ----
(***************************************************************************)
(* RepoDepot agent orchestration: the task claim state machine             *)
(* (routes/users.ts agentRoutes + IssueRepository), the progress ledger    *)
(* and clarification channel (routes/progress.ts + ProgressRepository)     *)
(* and the process supervisor (runningAgents in routes/users.ts).          *)
(*                                                                         *)
(* The server is a single Node.js event loop over a synchronous store      *)
(* (better-sqlite3): a handler runs without interruption up to its first   *)
(* await, so one action below is one such uninterrupted run.               *)
(***************************************************************************)
EXTENDS Integers, Sequences, FiniteSets, TLC

(* ---- bounds of the model ---- *)
NTasks == 1        \* tasks in the store (one further id is always missing)
MaxReqs == 2       \* agent-API requests in flight at once
MaxClock == 1      \* last instant of the clock
MaxDesc == 1       \* summaries appended to a description
MaxPlan == 2       \* longest plan a request carries
MaxSteps == 2      \* most step rows a task holds
MaxAfter == 2      \* largest afterIndex a request carries
MaxInsert == 3     \* most step rows of a task that steps are inserted into
MaxSummaries == 2  \* summaries appended to a description that is kept

MaxQuestions == 2  \* rows of task_questions
MaxWaits == 1      \* long polls in flight at once
MaxPolls == 2      \* poll intervals the clock runs for

NRepos == 2        \* repositories (one further id is always missing)
Exact == 64        \* stands for 2^53, the end of the exact integers of JavaScript
MaxChunks == 102   \* chunks a child writes to its pipes
MaxErr == 1        \* the first chunks of a child may go to stderr
NBatch == 4        \* tasks in the tables when agents are started in a batch
MaxProcs == 2      \* child processes spawned in one run
NListed == 3       \* tasks in the store when tasks are listed

(* ---- constants of the program ---- *)
pollInterval == 500
maxPollTimeout == 30000

NULL == "null"
None == <<>>
Some(x) == <<x>>

VARIABLES
  now,            \* Date.now(), in instants
  token,          \* ConfigRepository.getGitHubToken() is set
  issues,         \* table issues: task id -> row
  github,         \* the agent label of each task's GitHub issue
  reqs,           \* agent-API requests: slot -> request in flight
  steps,          \* table task_steps: task id -> set of rows
  questions,      \* table task_questions: set of rows
  waits,          \* GET /:taskId/answer requests: slot -> request
  repositories,   \* table repositories: repository id -> row
  runningAgents,  \* the Map runningAgents: repository id -> entry
  procs,          \* the child processes spawned so far: pid -> process
  resp            \* the last response of the routes that never await

vars ==
  <<now, token, issues, github, reqs, steps, questions, waits,
    repositories, runningAgents, procs, resp>>

channelVars == <<questions, waits>>
processVars == <<repositories, runningAgents, procs>>
supervisorVars == <<processVars, resp>>

Waiters == 1..MaxWaits

NoResponse == [result |-> NULL, data |-> <<>>]

(* res.json / res.status(...).json of a route that never awaits *)
Reply(result, data) ==
  resp' = [result |-> result, data |-> data]

TaskIds == 1..NTasks
MissingTask == NTasks + 1
AnyTaskId == TaskIds \cup {MissingTask}
Reqs == 1..MaxReqs
RepoIds == 1..NRepos
MissingRepo == NRepos + 1
AnyRepoId == RepoIds \cup {MissingRepo}

AgentStatus == {"pending", "assigned", "in_progress", "completed", "failed"}
StepStatus == {"pending", "in_progress", "done", "failed", "skipped"}

(* AGENT_LABELS: the GitHub label of an agent status *)
AGENT_LABELS(s) ==
  CASE s = "pending" -> "claude-code-pending"
    [] s = "assigned" -> "claude-code-assigned"
    [] s = "in_progress" -> "claude-code-in-progress"
    [] s = "completed" -> "claude-code-completed"
    [] s = "failed" -> "claude-code-failed"

(* ---- text: a string is a sequence of characters, "_" is white space ---- *)
RECURSIVE TrimStart(_)
TrimStart(s) ==
  IF s # <<>> /\ Head(s) = "_" THEN TrimStart(Tail(s)) ELSE s

RECURSIVE TrimEnd(_)
TrimEnd(s) ==
  IF s # <<>> /\ s[Len(s)] = "_" THEN TrimEnd(SubSeq(s, 1, Len(s) - 1)) ELSE s

Trim(s) == TrimEnd(TrimStart(s))

Texts == {<<"a">>, <<"b">>, <<"_", "a">>, <<"_">>, <<>>}

(* ---- IssueRepository ---- *)
(* the row IssueRepository.create stores for a new issue *)
NewIssue ==
  [agentStatus |-> "pending", status |-> "todo", agentClaimedAt |-> None,
   agentCompletedAt |-> None, agentError |-> NULL, description |-> <<>>]

(* github_issue_number of a task: the tasks 2, 6, 10, ... were created
   locally and have none *)
githubIssueNumber(t) == IF t % 4 = 2 THEN 0 ELSE t

(* IssueRepository.update: the columns named in data are written *)
update(id, data) ==
  [issues EXCEPT ![id] =
     [f \in DOMAIN issues[id] |->
        IF f \in DOMAIN data THEN data[f] ELSE issues[id][f]]]

(* ---- requests of the agent API ---- *)
IdleReq ==
  [pc |-> "idle", op |-> NULL, task |-> 0, seen |-> NULL, status |-> NULL,
   error |-> NULL, summary |-> NULL, prUrl |-> NULL, result |-> NULL,
   newStatus |-> NULL, issue |-> NULL, plan |-> <<>>, description |-> <<>>,
   afterIndex |-> 0]

(* res.json(...): the request body is no longer needed *)
Respond(r, result, issueStatus) ==
  reqs' = [reqs EXCEPT ![r] =
     [IdleReq EXCEPT !.pc = "done", !.op = reqs[r].op, !.task = reqs[r].task,
        !.seen = reqs[r].seen, !.result = result, !.issue = issueStatus]]

(* the tail of the three write handlers: the label sync is attempted only
   with a token and a GitHub issue number, after the local write *)
SyncOrRespond(r, t, newStatus) ==
  IF token /\ githubIssueNumber(t) # 0
  THEN reqs' = [reqs EXCEPT ![r] =
     [IdleReq EXCEPT !.pc = "labels_get", !.op = reqs[r].op,
        !.task = reqs[r].task, !.seen = reqs[r].seen,
        !.newStatus = newStatus, !.issue = newStatus]]
  ELSE Respond(r, "success", newStatus)

(* a client sends a request; seen is the claim status the client last saw *)
Send(r, op, t, status, error, summary, prUrl) ==
  /\ reqs[r].pc = "idle"
  /\ reqs' = [reqs EXCEPT ![r] =
       [IdleReq EXCEPT !.pc = "queued", !.op = op, !.task = t,
          !.seen = IF t \in DOMAIN issues THEN issues[t].agentStatus ELSE NULL,
          !.status = status, !.error = error, !.summary = summary,
          !.prUrl = prUrl]]
  /\ UNCHANGED <<now, token, issues, github, steps, channelVars, supervisorVars>>

SendClaim(r, t) == Send(r, "claim", t, NULL, NULL, NULL, NULL)

SendStatus(r, t, status, error) == Send(r, "status", t, status, error, NULL, NULL)

SendComplete(r, t, summary, prUrl) ==
  /\ t \in DOMAIN issues => Len(issues[t].description) < MaxDesc
  /\ Send(r, "complete", t, NULL, NULL, summary, prUrl)

(* the columns a claim writes, without a claim time *)
ClaimUpdatesNoStamp ==
  [agentStatus |-> "assigned", status |-> "in-progress"]

(* the columns POST /tasks/:issueId/claim writes *)
ClaimUpdates ==
  [agentStatus |-> "assigned", agentClaimedAt |-> Some(now),
   status |-> "in-progress"]

(* POST /tasks/:issueId/claim, up to its first await.  current is the claim
   status the handler compares with 'pending'. *)
ClaimWith(r, current) ==
  LET t == reqs[r].task IN
  /\ reqs[r].pc = "queued"
  /\ reqs[r].op = "claim"
  /\ IF t \notin DOMAIN issues
     THEN /\ Respond(r, "not_found", NULL)
          /\ UNCHANGED issues
     ELSE IF current # "pending"
     THEN /\ Respond(r, "invalid_transition", NULL)
          /\ UNCHANGED issues
     ELSE /\ issues' = update(t, ClaimUpdates)
          /\ SyncOrRespond(r, t, "assigned")
  /\ UNCHANGED <<now, token, github, steps, channelVars, supervisorVars>>

(* a claim that decides on the status its client saw when it sent it *)
ClaimStale(r) == ClaimWith(r, reqs[r].seen)

ClaimHandler(r) ==
  ClaimWith(r, IF reqs[r].task \in DOMAIN issues
               THEN issues[reqs[r].task].agentStatus ELSE NULL)

(* a status route that takes every claim status *)
AcceptedStatusAll == AgentStatus

(* the statuses POST /tasks/:issueId/status accepts *)
AcceptedStatus == {"assigned", "in_progress", "completed", "failed"}

(* the columns POST /tasks/:issueId/status writes for a status *)
StatusUpdates(status, error) ==
  CASE status = "in_progress" ->
         [agentStatus |-> status, status |-> "in-progress"]
    [] status = "completed" ->
         [agentStatus |-> status, agentCompletedAt |-> Some(now),
          status |-> "review"]
    [] status = "failed" ->
         [agentStatus |-> status,
          agentError |-> IF error = NULL THEN "Unknown error" ELSE error,
          status |-> "todo"]
    [] OTHER -> [agentStatus |-> status]

(* POST /tasks/:issueId/status, up to its first await *)
StatusHandler(r) ==
  LET t == reqs[r].task
      status == reqs[r].status IN
  /\ reqs[r].pc = "queued"
  /\ reqs[r].op = "status"
  /\ IF status \notin AcceptedStatus
     THEN /\ Respond(r, "invalid_status", NULL)
          /\ UNCHANGED issues
     ELSE IF t \notin DOMAIN issues
     THEN /\ Respond(r, "not_found", NULL)
          /\ UNCHANGED issues
     ELSE /\ issues' = update(t, StatusUpdates(status, reqs[r].error))
          /\ SyncOrRespond(r, t, status)
  /\ UNCHANGED <<now, token, github, steps, channelVars, supervisorVars>>

(* a complete route that stores the summary in place of the description *)
CompleteHandlerReplace(r) ==
  LET t == reqs[r].task IN
  /\ reqs[r].pc = "queued"
  /\ reqs[r].op = "complete"
  /\ IF t \notin DOMAIN issues
     THEN /\ Respond(r, "not_found", NULL)
          /\ UNCHANGED issues
     ELSE /\ issues' = update(t,
               [agentStatus |-> "completed",
                agentCompletedAt |-> Some(now),
                status |-> "review",
                description |->
                  IF reqs[r].summary # NULL
                  THEN <<<<reqs[r].summary, reqs[r].prUrl>>>>
                  ELSE issues[t].description])
          /\ SyncOrRespond(r, t, "completed")
  /\ UNCHANGED <<now, token, github, steps, channelVars, supervisorVars>>

(* POST /tasks/:issueId/complete, up to its first await *)
CompleteHandler(r) ==
  LET t == reqs[r].task IN
  /\ reqs[r].pc = "queued"
  /\ reqs[r].op = "complete"
  /\ IF t \notin DOMAIN issues
     THEN /\ Respond(r, "not_found", NULL)
          /\ UNCHANGED issues
     ELSE /\ issues' = update(t,
               [agentStatus |-> "completed",
                agentCompletedAt |-> Some(now),
                status |-> "review",
                description |->
                  IF reqs[r].summary # NULL
                  THEN Append(issues[t].description,
                              <<reqs[r].summary, reqs[r].prUrl>>)
                  ELSE issues[t].description])
          /\ SyncOrRespond(r, t, "completed")
  /\ UNCHANGED <<now, token, github, steps, channelVars, supervisorVars>>

(* updateGitHubLabels without the try/catch: a throw of github.getIssue
   reaches the catch of the route, which answers 500 *)
GitHubGetIssueThrow(r, ok) ==
  /\ reqs[r].pc = "labels_get"
  /\ IF ok
     THEN reqs' = [reqs EXCEPT ![r].pc = "labels_put"]
     ELSE Respond(r, "error", NULL)
  /\ UNCHANGED <<now, token, issues, github, steps, channelVars, supervisorVars>>

(* updateGitHubLabels: await github.getIssue; a throw is caught and logged *)
GitHubGetIssue(r, ok) ==
  /\ reqs[r].pc = "labels_get"
  /\ IF ok
     THEN reqs' = [reqs EXCEPT ![r].pc = "labels_put"]
     ELSE Respond(r, "success", reqs[r].issue)
  /\ UNCHANGED <<now, token, issues, github, steps, channelVars, supervisorVars>>

(* updateGitHubLabels: await github.updateIssue with every claude-code-
   label replaced by the new one; a throw is caught and logged *)
GitHubUpdateIssue(r, ok) ==
  /\ reqs[r].pc = "labels_put"
  /\ github' = IF ok
               THEN [github EXCEPT ![reqs[r].task] = AGENT_LABELS(reqs[r].newStatus)]
               ELSE github
  /\ Respond(r, "success", reqs[r].issue)
  /\ UNCHANGED <<now, token, issues, steps, channelVars, supervisorVars>>

(* the client has read the response *)
Forget(r) ==
  /\ reqs[r].pc = "done"
  /\ reqs' = [reqs EXCEPT ![r] = IdleReq]
  /\ UNCHANGED <<now, token, issues, github, steps, channelVars, supervisorVars>>

(* time passes *)
Tick ==
  /\ now < MaxClock
  /\ now' = now + 1
  /\ UNCHANGED <<token, issues, github, reqs, steps, channelVars, supervisorVars>>

(* ---- the CLI worker (repodepot agent) ---- *)
(* worker r makes its calls through request r, so that reqs[r] is also the
   position of the worker in processTask *)

(* processTask, line 117: the worker sends the claim of a task that was
   pending when it fetched the list *)
claimTask(r, t) == SendClaim(r, t)

(* the call the worker makes next *)
fetchJson(r, op, t, status, error, summary) ==
  reqs' = [reqs EXCEPT ![r] =
     [IdleReq EXCEPT !.pc = "queued", !.op = op, !.task = t,
        !.seen = issues[t].agentStatus, !.status = status, !.error = error,
        !.summary = summary]]

(* a worker that goes on after each response, whatever it says *)
processTaskBlind(r) ==
  LET t == reqs[r].task IN
  /\ reqs[r].pc = "done"
  /\ t \in DOMAIN issues
  /\ CASE reqs[r].op = "claim" ->
            fetchJson(r, "status", t, "in_progress", NULL, NULL)
       [] reqs[r].op = "status" /\ reqs[r].issue = "in_progress" ->
            reqs' = [reqs EXCEPT ![r] =
               [IdleReq EXCEPT !.pc = "agent", !.op = "agent", !.task = t]]
       [] OTHER -> reqs' = [reqs EXCEPT ![r] = IdleReq]
  /\ UNCHANGED <<now, token, issues, github, steps, channelVars, supervisorVars>>

(* processTask, lines 117 to 141 and 148 to 153: the worker reads the
   response of its call.  A response that is not ok makes fetchJson throw,
   which ends processTask and the loop of processAllTasks; after the claim
   the worker sets the task in progress, after that it starts the agent
   program, and after its report it is done with the task. *)
processTask(r) ==
  LET t == reqs[r].task IN
  /\ reqs[r].pc = "done"
  /\ CASE reqs[r].result # "success" ->
            reqs' = [reqs EXCEPT ![r] = IdleReq]
       [] reqs[r].result = "success" /\ reqs[r].op = "claim" ->
            fetchJson(r, "status", t, "in_progress", NULL, NULL)
       [] reqs[r].result = "success" /\ reqs[r].op = "status"
            /\ reqs[r].issue = "in_progress" ->
            reqs' = [reqs EXCEPT ![r] =
               [IdleReq EXCEPT !.pc = "agent", !.op = "agent", !.task = t]]
       [] OTHER -> reqs' = [reqs EXCEPT ![r] = IdleReq]
  /\ UNCHANGED <<now, token, issues, github, steps, channelVars, supervisorVars>>

(* runClaudeCode resolves: the agent program has ended, and the worker
   reports the task completed with a summary or failed with the output *)
runClaudeCode(r, success) ==
  LET t == reqs[r].task IN
  /\ reqs[r].pc = "agent"
  /\ IF success
     THEN fetchJson(r, "complete", t, NULL, NULL, "sum")
     ELSE fetchJson(r, "status", t, "failed", "boom", NULL)
  /\ UNCHANGED <<now, token, issues, github, steps, channelVars, supervisorVars>>

(* ---- ProgressRepository: steps ---- *)
Indices(t) == {s.idx : s \in steps[t]}

StepIds == UNION {{s.id : s \in steps[t]} : t \in DOMAIN steps}

(* randomUUID, n times: ids that no row of the table holds *)
RECURSIVE randomUUID(_, _)
randomUUID(used, n) ==
  IF n = 0 THEN <<>>
  ELSE LET i == CHOOSE i \in 1..(Cardinality(used) + 1) :
                  i \notin used /\ \A j \in 1..(i - 1) : j \in used
       IN <<i>> \o randomUUID(used \cup {i}, n - 1)

(* a row as INSERT INTO task_steps (id, task_id, idx, description, status)
   leaves it: note, started_at and completed_at are NULL *)
NewStep(id, idx, description) ==
  [id |-> id, idx |-> idx, description |-> description, status |-> "pending",
   note |-> NULL, startedAt |-> None, completedAt |-> None]

(* ProgressRepository.getSteps of the table rows: the task's rows,
   ORDER BY idx ASC *)
getStepsOf(rows) ==
  CHOOSE seq \in [1..Cardinality(rows) -> rows] :
    /\ \A i, j \in DOMAIN seq : i # j => seq[i] # seq[j]
    /\ \A i, j \in DOMAIN seq : i < j => seq[i].idx <= seq[j].idx

(* ProgressRepository.getSteps *)
getSteps(t) == getStepsOf(steps[t])

(* createPlan without the DELETE: the plan is inserted next to the old rows *)
createPlanKeep(t, plan) ==
  LET ids == randomUUID(StepIds, Len(plan))
  IN [steps EXCEPT ![t] =
        @ \cup {NewStep(ids[i], i - 1, plan[i]) : i \in 1..Len(plan)}]

(* ProgressRepository.createPlan: DELETE the task's rows, INSERT the plan *)
createPlan(t, plan) ==
  LET others == UNION {{s.id : s \in steps[u]} : u \in DOMAIN steps \ {t}}
      ids == randomUUID(others, Len(plan))
  IN [steps EXCEPT ![t] =
        {NewStep(ids[i], i - 1, plan[i]) : i \in 1..Len(plan)}]

(* a plan route that promotes the task whatever its claim status *)
PlanRoutePromote(t, plan) ==
  IF t \notin DOMAIN issues
  THEN Reply("not_found", <<>>) /\ UNCHANGED <<issues, steps>>
  ELSE IF plan = <<>>
  THEN Reply("validation", <<>>) /\ UNCHANGED <<issues, steps>>
  ELSE IF \E i \in 1..Len(plan) : Len(Trim(plan[i])) = 0
  THEN Reply("validation", <<>>) /\ UNCHANGED <<issues, steps>>
  ELSE /\ steps' = createPlan(t, plan)
       /\ issues' = update(t, [agentStatus |-> "in_progress",
                               status |-> "in-progress"])
       /\ Reply("success", <<>>)

(* POST /:taskId/plan: what the handler reads and writes *)
PlanRoute(t, plan) ==
  IF t \notin DOMAIN issues
  THEN Reply("not_found", <<>>) /\ UNCHANGED <<issues, steps>>
  ELSE IF plan = <<>>
  THEN Reply("validation", <<>>) /\ UNCHANGED <<issues, steps>>
  ELSE IF \E i \in 1..Len(plan) : Len(Trim(plan[i])) = 0
  THEN Reply("validation", <<>>) /\ UNCHANGED <<issues, steps>>
  ELSE /\ steps' = createPlan(t, plan)
       /\ issues' = IF issues[t].agentStatus \in {"assigned", "pending"}
                    THEN update(t, [agentStatus |-> "in_progress",
                                    status |-> "in-progress"])
                    ELSE issues
       /\ Reply("success", <<>>)

(* ---- the body of POST /:taskId/plan as JSON ---- *)
(* a JSON value of the array steps: a string with its text, or a number *)
JsonString(text) == [type |-> "string", text |-> text]
JsonNumber == [type |-> "number", text |-> <<>>]

(* req.body.steps: undefined when the body has no steps, else an array *)
JsonUndefined == [type |-> "undefined", items |-> <<>>]
JsonArray(items) == [type |-> "array", items |-> items]

(* the texts of an array of strings *)
TextsOf(items) == [i \in 1..Len(items) |-> items[i].text]

(* a plan route that checks its array for length alone *)
PlanBodyRouteLax(t, body) ==
  IF t \notin DOMAIN issues
  THEN Reply("not_found", <<>>) /\ UNCHANGED <<issues, steps>>
  ELSE IF body.type # "array" \/ body.items = <<>>
  THEN Reply("validation", <<>>) /\ UNCHANGED <<issues, steps>>
  ELSE /\ steps' = createPlan(t, TextsOf(body.items))
       /\ issues' = IF issues[t].agentStatus \in {"assigned", "pending"}
                    THEN update(t, [agentStatus |-> "in_progress",
                                    status |-> "in-progress"])
                    ELSE issues
       /\ Reply("success", <<>>)

(* POST /:taskId/plan from the JSON body: !steps, !Array.isArray(steps) and
   typeof s === 'string' are decided here, the rest by the checks on texts *)
PlanBodyRoute(t, body) ==
  IF t \notin DOMAIN issues
  THEN Reply("not_found", <<>>) /\ UNCHANGED <<issues, steps>>
  ELSE IF body.type # "array"
  THEN Reply("validation", <<>>) /\ UNCHANGED <<issues, steps>>
  ELSE IF \E i \in 1..Len(body.items) : body.items[i].type # "string"
  THEN Reply("validation", <<>>) /\ UNCHANGED <<issues, steps>>
  ELSE PlanRoute(t, TextsOf(body.items))

(* POST /:taskId/plan, the body as it arrives *)
CreatePlanBody(t, body) ==
  /\ PlanBodyRoute(t, body)
  /\ UNCHANGED <<now, token, github, reqs, channelVars, processVars>>

(* POST /:taskId/plan *)
CreatePlan(t, plan) ==
  /\ PlanRoute(t, plan)
  /\ UNCHANGED <<now, token, github, reqs, channelVars, processVars>>

(* updateStep that writes the note even when the call has none *)
updateStepNote(t, index, status, note) ==
  [steps EXCEPT ![t] =
     {IF s.idx # index THEN s
      ELSE [s EXCEPT
              !.status = status,
              !.note = note,
              !.startedAt = IF status = "in_progress" THEN Some(now) ELSE @,
              !.completedAt = IF status \in {"done", "failed", "skipped"}
                              THEN Some(now) ELSE @]
      : s \in steps[t]}]

(* updateStep that writes the status and the note and no timestamp *)
updateStepUnstamped(t, index, status, note) ==
  [steps EXCEPT ![t] =
     {IF s.idx # index THEN s
      ELSE [s EXCEPT !.status = status,
                     !.note = IF note # NULL THEN note ELSE @]
      : s \in steps[t]}]

(* updateStep with WHERE task_id = ? alone: every row of the task *)
updateStepAll(t, index, status, note) ==
  [steps EXCEPT ![t] =
     {[s EXCEPT
         !.status = status,
         !.note = IF note # NULL THEN note ELSE @,
         !.startedAt = IF status = "in_progress" THEN Some(now) ELSE @,
         !.completedAt = IF status \in {"done", "failed", "skipped"}
                         THEN Some(now) ELSE @]
      : s \in steps[t]}]

(* ProgressRepository.updateStep: UPDATE ... WHERE task_id = ? AND idx = ? *)
updateStep(t, index, status, note) ==
  [steps EXCEPT ![t] =
     {IF s.idx # index THEN s
      ELSE [s EXCEPT
              !.status = status,
              !.note = IF note # NULL THEN note ELSE @,
              !.startedAt = IF status = "in_progress" THEN Some(now) ELSE @,
              !.completedAt = IF status \in {"done", "failed", "skipped"}
                              THEN Some(now) ELSE @]
      : s \in steps[t]}]

(* PUT /:taskId/step/:index; index is parseInt of the path segment *)
UpdateStep(t, index, status, note) ==
  /\ IF t \notin DOMAIN issues
     THEN Reply("not_found", <<>>) /\ UNCHANGED steps
     ELSE IF index < 0
     THEN Reply("validation", <<>>) /\ UNCHANGED steps
     ELSE IF status \notin StepStatus
     THEN Reply("validation", <<>>) /\ UNCHANGED steps
     ELSE /\ steps' = updateStep(t, index, status, note)
          /\ IF index \in Indices(t)
             THEN Reply("success", <<>>)
             ELSE Reply("not_found", <<>>)
  /\ UNCHANGED <<now, token, issues, github, reqs, channelVars,
                 processVars>>

(* addStep without the UPDATE that shifts the later rows *)
addStepNoShift(t, description, afterIndex) ==
  [steps EXCEPT ![t] =
     @ \cup {NewStep(randomUUID(StepIds, 1)[1], afterIndex + 1, description)}]

(* afterIndex + 1 in the numbers of JavaScript, which are doubles: up to
   2^53 the sum of two integers is exact, from there on only every second
   integer is a number and a sum that falls between two of them is rounded
   to the one with the even significand, so that 2^53 + 1 is 2^53.  The
   integers from Exact on stand for 2^53 + (n - Exact). *)
plusOne(afterIndex) ==
  IF afterIndex < Exact THEN afterIndex + 1
  ELSE IF (afterIndex - Exact) % 4 = 0 THEN afterIndex ELSE afterIndex + 2

(* ProgressRepository.addStep: the UPDATE shifts the later rows (idx is an
   INTEGER column, idx + 1 is exact), then INSERT at newIndex, which is
   afterIndex + 1 as JavaScript computes it *)
addStep(t, description, afterIndex) ==
  LET shifted == {IF s.idx > afterIndex THEN [s EXCEPT !.idx = @ + 1] ELSE s
                  : s \in steps[t]}
      id == randomUUID(StepIds, 1)[1]
      newIndex == plusOne(afterIndex)
  IN [steps EXCEPT ![t] =
        shifted \cup {NewStep(id, newIndex, description)}]

(* POST /:taskId/step: what the handler reads and writes *)
StepRoute(t, description, afterIndex) ==
  IF t \notin DOMAIN issues
  THEN Reply("not_found", <<>>) /\ UNCHANGED steps
  ELSE IF Len(Trim(description)) = 0
  THEN Reply("validation", <<>>) /\ UNCHANGED steps
  ELSE IF afterIndex < 0 - 1
  THEN Reply("validation", <<>>) /\ UNCHANGED steps
  ELSE /\ steps' = addStep(t, Trim(description), afterIndex)
       /\ Reply("success", <<>>)

(* POST /:taskId/step *)
AddStep(t, description, afterIndex) ==
  /\ StepRoute(t, description, afterIndex)
  /\ UNCHANGED <<now, token, issues, github, reqs, channelVars,
                 processVars>>

(* ---- requests of the progress API in flight ---- *)
(* a client sends POST /:taskId/plan *)
SendPlan(r, t, plan) ==
  /\ reqs[r].pc = "idle"
  /\ reqs' = [reqs EXCEPT ![r] =
       [IdleReq EXCEPT !.pc = "queued", !.op = "plan", !.task = t,
          !.plan = plan]]
  /\ UNCHANGED <<now, token, issues, github, steps, channelVars, supervisorVars>>

(* a client sends POST /:taskId/step *)
SendStep(r, t, description, afterIndex) ==
  /\ reqs[r].pc = "idle"
  /\ reqs' = [reqs EXCEPT ![r] =
       [IdleReq EXCEPT !.pc = "queued", !.op = "step", !.task = t,
          !.description = description, !.afterIndex = afterIndex]]
  /\ UNCHANGED <<now, token, issues, github, steps, channelVars, supervisorVars>>

(* the server runs the plan handler on a request it has received: the
   handler never awaits, so it runs from its first line to res.json *)
PlanHandler(r) ==
  /\ reqs[r].pc = "queued"
  /\ reqs[r].op = "plan"
  /\ PlanRoute(reqs[r].task, reqs[r].plan)
  /\ reqs' = [reqs EXCEPT ![r] =
       [IdleReq EXCEPT !.pc = "done", !.op = "plan", !.task = reqs[r].task,
          !.result = resp'.result]]
  /\ UNCHANGED <<now, token, github, channelVars, processVars>>

(* the server runs the add-step handler on a request it has received *)
StepHandler(r) ==
  /\ reqs[r].pc = "queued"
  /\ reqs[r].op = "step"
  /\ StepRoute(reqs[r].task, reqs[r].description, reqs[r].afterIndex)
  /\ reqs' = [reqs EXCEPT ![r] =
       [IdleReq EXCEPT !.pc = "done", !.op = "step", !.task = reqs[r].task,
          !.result = resp'.result]]
  /\ UNCHANGED <<now, token, issues, github, channelVars, processVars>>

(* ---- ProgressRepository: questions ---- *)
(* the rows of the task, without the filter answer IS NULL *)
AllQuestions(t) == {q \in questions : q.taskId = t}

Unanswered(t) == {q \in questions : q.taskId = t /\ q.answer = None}

Answered(t) == {q \in questions : q.taskId = t /\ q.answer # None}

(* getPendingQuestion with ORDER BY asked_at ASC: the oldest open rows *)
getFirstPending(t) ==
  {q \in Unanswered(t) : \A o \in Unanswered(t) : q.askedAt <= o.askedAt}

(* ProgressRepository.getPendingQuestion: the rows that
   ORDER BY asked_at DESC LIMIT 1 may return; none when the set is empty *)
getPendingQuestion(t) ==
  {q \in Unanswered(t) : \A o \in Unanswered(t) : o.askedAt <= q.askedAt}

(* a getAnswer that finds no row *)
getNoAnswer(t) == {}

(* ProgressRepository.getAnswer: the rows that
   ORDER BY answered_at DESC LIMIT 1 may return *)
getAnswer(t) ==
  {q \in Answered(t) : \A o \in Answered(t) : o.answeredAt[1] <= q.answeredAt[1]}

(* ProgressRepository.askQuestion *)
askQuestion(t, question, choices) ==
  questions \cup
    {[id |-> Cardinality(questions) + 1, taskId |-> t, question |-> question,
      choices |-> choices, answer |-> None, askedAt |-> now,
      answeredAt |-> None]}

(* POST /:taskId/ask; choices = None is a body without choices *)
Ask(t, question, choices) ==
  /\ IF t \notin DOMAIN issues
     THEN Reply("not_found", <<>>) /\ UNCHANGED questions
     ELSE IF Len(Trim(question)) = 0
     THEN Reply("validation", <<>>) /\ UNCHANGED questions
     ELSE IF /\ choices # None
             /\ \/ choices[1] = <<>>
                \/ \E i \in 1..Len(choices[1]) : Len(Trim(choices[1][i])) = 0
     THEN Reply("validation", <<>>) /\ UNCHANGED questions
     ELSE /\ Cardinality(questions) < MaxQuestions
          /\ questions' = askQuestion(t, Trim(question), choices)
          /\ Reply("success", <<>>)
  /\ UNCHANGED <<now, token, issues, github, reqs, steps, waits,
                 processVars>>

(* ProgressRepository.answerQuestion on the pending row *)
answerQuestion(pending, answer) ==
  (questions \ {pending}) \cup
    {[pending EXCEPT !.answer = answer, !.answeredAt = Some(now)]}

(* POST /:taskId/answer *)
Answer(t, answer) ==
  /\ IF t \notin DOMAIN issues
     THEN Reply("not_found", <<>>) /\ UNCHANGED questions
     ELSE IF Len(Trim(answer)) = 0
     THEN Reply("validation", <<>>) /\ UNCHANGED questions
     ELSE IF getPendingQuestion(t) = {}
     THEN Reply("no_pending_question", <<>>) /\ UNCHANGED questions
     ELSE \E pending \in getPendingQuestion(t) :
            /\ questions' = answerQuestion(pending, Trim(answer))
            /\ Reply("success", <<>>)
  /\ UNCHANGED <<now, token, issues, github, reqs, steps, waits,
                 processVars>>

(* ProgressRepository.getTasksAwaitingInput: every row with answer IS NULL,
   ORDER BY asked_at ASC, in the orders the clause allows *)
getTasksAwaitingInput ==
  LET open == {q \in questions : q.answer = None}
  IN {seq \in [1..Cardinality(open) -> open] :
        /\ \A i, j \in DOMAIN seq : i # j => seq[i] # seq[j]
        /\ \A i, j \in DOMAIN seq : i < j => seq[i].askedAt <= seq[j].askedAt}

(* GET /awaiting/all: one entry for each row, with its task *)
AwaitingAll ==
  /\ \E tasksAwaiting \in getTasksAwaitingInput :
       Reply("success",
             <<"awaiting",
               [i \in DOMAIN tasksAwaiting |->
                  [taskId |-> tasksAwaiting[i].taskId,
                   question |-> tasksAwaiting[i]]],
               Len(tasksAwaiting)>>)
  /\ UNCHANGED <<now, token, issues, github, reqs, steps, channelVars,
                 processVars>>

(* ---- GET /:taskId/answer: the long poll ---- *)
IdleWait ==
  [pc |-> "idle", task |-> 0, pollTimeout |-> 0, startTime |-> 0,
   wakeAt |-> 0, pending |-> None, result |-> NULL, answered |-> FALSE,
   question |-> None, closed |-> FALSE]

(* the decimal digits, and the value of one *)
Digits == <<"0", "1", "2", "3", "4", "5", "6", "7", "8", "9">>

DigitVal(c) == (CHOOSE i \in 1..10 : Digits[i] = c) - 1

(* parseInt gives NaN, or Some(n) for the number n *)
NaN == <<>>

(* the value of the longest prefix of digits of str, after the digits
   already read; NaN when there is no digit at all *)
RECURSIVE parseDigits(_, _, _)
parseDigits(str, read, acc) ==
  IF str # <<>> /\ \E i \in 1..10 : Digits[i] = Head(str)
  THEN parseDigits(Tail(str), TRUE, acc * 10 + DigitVal(Head(str)))
  ELSE IF read THEN Some(acc) ELSE NaN

(* parseInt(str, 10) of a query parameter; <<>> is a parameter that is
   missing: leading whitespace is skipped, then a sign, then digits *)
parseInt(str) ==
  LET s == TrimStart(str)
  IN IF s # <<>> /\ Head(s) \in {"-", "+"}
     THEN LET n == parseDigits(Tail(s), FALSE, 0)
          IN IF n = NaN THEN NaN
             ELSE IF Head(s) = "-" THEN Some(0 - n[1]) ELSE n
     ELSE parseDigits(s, FALSE, 0)

(* a clamp with no upper bound *)
ClampNoMax(timeout) == IF timeout < 0 THEN 0 ELSE timeout

(* Math.min(Math.max(n, 0), 30000) *)
Clamp(timeout) ==
  IF timeout < 0 THEN 0
  ELSE IF timeout > maxPollTimeout THEN maxPollTimeout ELSE timeout

(* pollTimeout: Math.min(Math.max(parseInt(timeout, 10) || 0, 0), 30000) *)
pollTimeoutOf(timeout) ==
  LET n == parseInt(timeout)
  IN Clamp(IF n = NaN THEN 0 ELSE n[1])

WaitReturn(w, result, answered, question) ==
  waits' = [waits EXCEPT ![w] =
     [IdleWait EXCEPT !.pc = "done", !.task = waits[w].task,
        !.pollTimeout = waits[w].pollTimeout, !.result = result, !.answered = answered, !.question = question]]

(* a long poll that treats a task with nothing pending as an error *)
WaitStartStrict(w, t, timeout) ==
  /\ waits[w].pc = "idle"
  /\ waits' = [waits EXCEPT ![w] =
       [IdleWait EXCEPT !.pc = "done", !.task = t, !.result = "not_found"]]
  /\ UNCHANGED <<now, token, issues, github, reqs, steps, questions,
                 supervisorVars>>

(* the handler up to its first await: the two immediate checks, then the
   first turn of the loop, which finds elapsed = 0 and no answer *)
WaitStart(w, t, timeout) ==
  /\ waits[w].pc = "idle"
  /\ IF t \notin DOMAIN issues
     THEN waits' = [waits EXCEPT ![w] =
            [IdleWait EXCEPT !.pc = "done", !.task = t, !.result = "not_found"]]
     ELSE IF getAnswer(t) # {}
     THEN \E existingAnswer \in getAnswer(t) :
            waits' = [waits EXCEPT ![w] =
              [IdleWait EXCEPT !.pc = "done", !.task = t, !.result = "ok",
                 !.answered = TRUE, !.question = Some(existingAnswer)]]
     ELSE IF getPendingQuestion(t) = {}
     THEN waits' = [waits EXCEPT ![w] =
            [IdleWait EXCEPT !.pc = "done", !.task = t, !.result = "ok"]]
     ELSE \E pendingQuestion \in getPendingQuestion(t) :
            IF pollTimeoutOf(timeout) = 0
            THEN waits' = [waits EXCEPT ![w] =
                   [IdleWait EXCEPT !.pc = "done", !.task = t, !.result = "ok",
                      !.question = Some(pendingQuestion)]]
            ELSE waits' = [waits EXCEPT ![w] =
                   [IdleWait EXCEPT !.pc = "sleep", !.task = t,
                      !.pollTimeout = pollTimeoutOf(timeout), !.startTime = now,
                      !.wakeAt = now + pollInterval,
                      !.pending = Some(pendingQuestion)]]
  /\ UNCHANGED <<now, token, issues, github, reqs, steps, questions,
                 supervisorVars>>

(* the timer of setTimeout(resolve, pollInterval) fires: one turn of the loop *)
WaitPoll(w) ==
  LET t == waits[w].task
      pendingQuestion == waits[w].pending[1]
      elapsed == now - waits[w].startTime
  IN
  /\ waits[w].pc = "sleep"
  /\ now >= waits[w].wakeAt
  /\ IF elapsed >= waits[w].pollTimeout
     THEN WaitReturn(w, "ok", FALSE, Some(pendingQuestion))
     ELSE IF getAnswer(t) # {}
     THEN \E answer \in getAnswer(t) :
            IF answer.id = pendingQuestion.id
            THEN WaitReturn(w, "ok", TRUE, Some(answer))
            ELSE waits' = [waits EXCEPT ![w].wakeAt = now + pollInterval]
     ELSE waits' = [waits EXCEPT ![w].wakeAt = now + pollInterval]
  /\ UNCHANGED <<now, token, issues, github, reqs, steps, questions,
                 supervisorVars>>

(* the client has read the response *)
WaitForget(w) ==
  /\ waits[w].pc = "done"
  /\ waits' = [waits EXCEPT ![w] = IdleWait]
  /\ UNCHANGED <<now, token, issues, github, reqs, steps, questions,
                 supervisorVars>>

(* the client of a suspended long poll closes the connection; the handler
   registers no listener for it *)
WaitDisconnect(w) ==
  /\ waits[w].pc = "sleep"
  /\ ~waits[w].closed
  /\ waits' = [waits EXCEPT ![w].closed = TRUE]
  /\ UNCHANGED <<now, token, issues, github, reqs, steps, questions,
                 supervisorVars>>

(* a poll interval passes *)
TickPoll ==
  /\ now + pollInterval <= pollInterval * MaxPolls
  /\ now' = now + pollInterval
  /\ UNCHANGED <<token, issues, github, reqs, steps, channelVars,
                 supervisorVars>>

(* the longest poll timeout passes, once the clock of the run has ended *)
TickFar ==
  /\ now <= pollInterval * MaxPolls
  /\ now' = now + maxPollTimeout
  /\ UNCHANGED <<token, issues, github, reqs, steps, channelVars,
                 supervisorVars>>

(* ---- the process supervisor (routes/users.ts, runningAgents) ---- *)

(* new Map(): no repository is tracked *)
EmptyMap == [k \in {} |-> NULL]

(* runningAgents.set(repoId, entry) *)
MapSet(map, k, entry) ==
  [r \in DOMAIN map \cup {k} |-> IF r = k THEN entry ELSE map[r]]

(* runningAgents.delete(repoId): a no-op when the key is absent *)
MapDelete(map, k) == [r \in DOMAIN map \ {k} |-> map[r]]

(* issues.repo_id of a task *)
repoId(t) == ((t - 1) % NRepos) + 1

(* findPendingByRepo without the filter github_issue_number IS NOT NULL *)
findPendingUnsynced(k) ==
  {t \in DOMAIN issues : /\ repoId(t) = k
                         /\ issues[t].agentStatus = "pending"}

(* IssueRepository.findPendingByRepo: the rows the WHERE clause selects *)
findPendingByRepo(k) ==
  {t \in DOMAIN issues : /\ repoId(t) = k
                         /\ issues[t].agentStatus = "pending"
                         /\ githubIssueNumber(t) # 0}

(* ---- the listing of claimable tasks ---- *)
(* the letters, in the order of their codes *)
Letters ==
  <<"a", "b", "c", "d", "e", "f", "g", "h", "i", "j", "k", "l", "m",
    "n", "o", "p", "q", "r", "s", "t", "u", "v", "w", "x", "y", "z">>

CharCode(c) == CHOOSE i \in 1..Len(Letters) : Letters[i] = c

(* a < b for two TEXT values of SQLite (collation BINARY): the first
   character that differs decides, a proper prefix comes first *)
RECURSIVE TextLess(_, _)
TextLess(a, b) ==
  IF b = <<>> THEN FALSE
  ELSE IF a = <<>> THEN TRUE
  ELSE IF Head(a) = Head(b) THEN TextLess(Tail(a), Tail(b))
  ELSE CharCode(Head(a)) < CharCode(Head(b))

(* IssuePriority, the values of the column priority TEXT *)
IssuePriority ==
  {<<"l", "o", "w">>, <<"m", "e", "d", "i", "u", "m">>, <<"h", "i", "g", "h">>,
   <<"c", "r", "i", "t", "i", "c", "a", "l">>}

(* ORDER BY priority DESC, created_at ASC: row a has to come before row b *)
OrderedBefore(a, b) ==
  \/ TextLess(issues[b].priority, issues[a].priority)
  \/ /\ issues[a].priority = issues[b].priority
     /\ issues[a].createdAt < issues[b].createdAt

(* the arrays findPendingByRepo may return: the selected rows in an order
   the ORDER BY clause allows *)
pendingTasks(k) ==
  {seq \in [1..Cardinality(findPendingByRepo(k)) -> findPendingByRepo(k)] :
     /\ \A i, j \in DOMAIN seq : i # j => seq[i] # seq[j]
     /\ \A i, j \in DOMAIN seq : i < j => ~OrderedBefore(seq[j], seq[i])}

(* GET /api/agent/tasks/:repoId *)
ListTasks(k) ==
  /\ IF k \notin DOMAIN repositories
     THEN Reply("not_found", <<"tasks", k>>)
     ELSE \E tasks \in pendingTasks(k) : Reply("success", <<"tasks", k, tasks>>)
  /\ UNCHANGED <<now, token, issues, github, reqs, steps, channelVars,
                 processVars>>

(* the rolling log buffer: its length limit, and the number of entries
   GET /status/:repoId returns *)
logsMax == 100
recentLogs == 20

(* Array.prototype.slice(-n): the last n elements, all of them if fewer *)
slice(s, n) == SubSeq(s, IF Len(s) > n THEN Len(s) - n + 1 ELSE 1, Len(s))

(* Array.prototype.shift: the array without its first element *)
shift(s) == SubSeq(s, 2, Len(s))

(* a push that drops the newest entry when the buffer is full *)
pushDropNewest(logs, line) ==
  IF Len(logs) >= logsMax THEN logs ELSE Append(logs, line)

(* logs.push(line); if (logs.length > 100) logs.shift() *)
push(logs, line) ==
  LET pushed == Append(logs, line)
  IN IF Len(pushed) > logsMax THEN shift(pushed) ELSE pushed

(* what child_process.spawn does: the child runs, the spawn fails and the
   child's 'error' event is pending, or spawn itself throws *)
SpawnOutcomes == {"ok", "enoent", "throw"}

(* the ChildProcess spawn returns *)
spawn(k, outcome) ==
  [repo |-> k, state |-> IF outcome = "ok" THEN "running" ELSE "failed",
   signalled |-> FALSE, emitted |-> 0, logs |-> <<>>]

(* agent.process.kill('SIGTERM'): the signal reaches a child that is alive *)
kill(ps, p) ==
  [ps EXCEPT ![p].signalled = @ \/ ps[p].state = "running"]

(* POST /start/:repoId without the runningAgents.has check *)
StartUnchecked(k, workDirBody, outcome) ==
  /\ k \in RepoIds
  /\ Len(procs) < MaxProcs
  /\ procs' = Append(procs, spawn(k, "ok"))
  /\ runningAgents' =
       MapSet(runningAgents, k,
              [process |-> Len(procs) + 1, startedAt |-> now])
  /\ Reply("success", <<"start", k, Len(procs) + 1>>)
  /\ UNCHANGED <<now, token, issues, github, reqs, steps, channelVars,
                 repositories>>

(* POST /start/:repoId *)
Start(k, workDirBody, outcome) ==
  /\ IF k \notin RepoIds
     THEN /\ Reply("not_found", <<"start", k>>)
          /\ UNCHANGED <<runningAgents, procs>>
     ELSE IF k \in DOMAIN runningAgents
     THEN /\ Reply("already_running", <<"start", k>>)
          /\ UNCHANGED <<runningAgents, procs>>
     ELSE LET workDir == IF workDirBody # NULL THEN workDirBody
                         ELSE repositories[k].localPath
          IN IF workDir = NULL
             THEN /\ Reply("no_workdir", <<"start", k>>)
                  /\ UNCHANGED <<runningAgents, procs>>
             ELSE IF outcome = "throw"
             THEN /\ Reply("error", <<"start", k>>)
                  /\ UNCHANGED <<runningAgents, procs>>
             ELSE /\ Len(procs) < MaxProcs
                  /\ procs' = Append(procs, spawn(k, outcome))
                  /\ runningAgents' =
                       MapSet(runningAgents, k,
                              [process |-> Len(procs) + 1, startedAt |-> now])
                  /\ Reply("success", <<"start", k, Len(procs) + 1>>)
  /\ UNCHANGED <<now, token, issues, github, reqs, steps, channelVars,
                 repositories>>

(* POST /stop/:repoId without runningAgents.delete *)
StopKeep(k) ==
  /\ k \in DOMAIN runningAgents
  /\ procs' = kill(procs, runningAgents[k].process)
  /\ Reply("success", <<"stop", k>>)
  /\ UNCHANGED <<now, token, issues, github, reqs, steps, channelVars,
                 repositories, runningAgents>>

(* a stop that also gives the tasks of the repository back: those assigned
   or in progress become pending again *)
StopRelease(k) ==
  /\ k \in DOMAIN runningAgents
  /\ procs' = kill(procs, runningAgents[k].process)
  /\ runningAgents' = MapDelete(runningAgents, k)
  /\ issues' = [t \in DOMAIN issues |->
                  IF repoId(t) = k /\ issues[t].agentStatus \in {"assigned", "in_progress"}
                  THEN [issues[t] EXCEPT !.agentStatus = "pending"]
                  ELSE issues[t]]
  /\ Reply("success", <<"stop", k>>)
  /\ UNCHANGED <<now, token, github, reqs, steps, channelVars, repositories>>

(* POST /stop/:repoId *)
Stop(k) ==
  /\ IF k \notin DOMAIN runningAgents
     THEN /\ Reply("not_running", <<"stop", k>>)
          /\ UNCHANGED <<runningAgents, procs>>
     ELSE /\ procs' = kill(procs, runningAgents[k].process)
          /\ runningAgents' = MapDelete(runningAgents, k)
          /\ Reply("success", <<"stop", k>>)
  /\ UNCHANGED <<now, token, issues, github, reqs, steps, channelVars,
                 repositories>>

(* GET /status/:repoId *)
Status(k) ==
  /\ IF k \notin DOMAIN runningAgents
     THEN Reply("success", <<"status", k, FALSE>>)
     ELSE Reply("success",
                <<"status", k, TRUE, runningAgents[k].process,
                  slice(procs[runningAgents[k].process].logs, recentLogs)>>)
  /\ UNCHANGED <<now, token, issues, github, reqs, steps, channelVars,
                 processVars>>

(* GET /running *)
Running ==
  /\ Reply("success",
           <<"running",
             {<<k, runningAgents[k].process>> : k \in DOMAIN runningAgents},
             Cardinality(DOMAIN runningAgents)>>)
  /\ UNCHANGED <<now, token, issues, github, reqs, steps, channelVars,
                 processVars>>

(* the loop of POST /start-all with the try/catch around the whole loop: the
   first repository that cannot be started ends the batch *)
RECURSIVE StartAllFromAbort(_, _, _, _, _)
StartAllFromAbort(k, map, ps, results, outcomes) ==
  IF k = 0 THEN [runningAgents |-> map, procs |-> ps, results |-> results]
  ELSE LET status ==
             IF findPendingByRepo(k) = {} THEN "no_tasks"
             ELSE IF k \in DOMAIN map THEN "already_running"
             ELSE IF repositories[k].localPath = NULL THEN "no_local_path"
             ELSE IF outcomes[k] = "throw" THEN "error"
             ELSE "started"
       IN IF status = "started"
          THEN StartAllFromAbort(k - 1,
                 MapSet(map, k, [process |-> Len(ps) + 1, startedAt |-> now]),
                 Append(ps, spawn(k, outcomes[k])),
                 Append(results, <<k, status, Len(ps) + 1>>), outcomes)
          ELSE IF status = "error"
          THEN [runningAgents |-> map, procs |-> ps,
                results |-> Append(results, <<k, status>>)]
          ELSE StartAllFromAbort(k - 1, map, ps,
                 Append(results, <<k, status>>), outcomes)

(* the loop of POST /start-all over RepositoryRepository.findAll(), newest
   repository first, from repository k down *)
RECURSIVE StartAllFrom(_, _, _, _, _)
StartAllFrom(k, map, ps, results, outcomes) ==
  IF k = 0 THEN [runningAgents |-> map, procs |-> ps, results |-> results]
  ELSE LET status ==
             IF findPendingByRepo(k) = {} THEN "no_tasks"
             ELSE IF k \in DOMAIN map THEN "already_running"
             ELSE IF repositories[k].localPath = NULL THEN "no_local_path"
             ELSE IF outcomes[k] = "throw" THEN "error"
             ELSE "started"
       IN IF status = "started"
          THEN StartAllFrom(k - 1,
                 MapSet(map, k, [process |-> Len(ps) + 1, startedAt |-> now]),
                 Append(ps, spawn(k, outcomes[k])),
                 Append(results, <<k, status, Len(ps) + 1>>), outcomes)
          ELSE StartAllFrom(k - 1, map, ps,
                 Append(results, <<k, status>>), outcomes)

(* POST /start-all *)
StartAll(outcomes) ==
  LET end == StartAllFrom(NRepos, runningAgents, procs, <<>>, outcomes)
  IN /\ Len(end.procs) <= MaxProcs
     /\ runningAgents' = end.runningAgents
     /\ procs' = end.procs
     /\ Reply("success", <<"start-all", end.results>>)
     /\ UNCHANGED <<now, token, issues, github, reqs, steps, channelVars,
                    repositories>>

(* the kill loop of POST /stop-all over the entries in set *)
RECURSIVE killAll(_, _)
killAll(ps, set) ==
  IF set = {} THEN ps
  ELSE LET p == CHOOSE q \in set : TRUE
       IN killAll(kill(ps, p), set \ {p})

(* POST /stop-all without runningAgents.clear *)
StopAllKeep ==
  /\ procs' = killAll(procs,
                {runningAgents[k].process : k \in DOMAIN runningAgents})
  /\ Reply("success",
           <<"stop-all", Cardinality(DOMAIN runningAgents),
             DOMAIN runningAgents>>)
  /\ UNCHANGED <<now, token, issues, github, reqs, steps, channelVars,
                 repositories, runningAgents>>

(* POST /stop-all *)
StopAll ==
  /\ procs' = killAll(procs,
                {runningAgents[k].process : k \in DOMAIN runningAgents})
  /\ runningAgents' = EmptyMap
  /\ Reply("success",
           <<"stop-all", Cardinality(DOMAIN runningAgents),
             DOMAIN runningAgents>>)
  /\ UNCHANGED <<now, token, issues, github, reqs, steps, channelVars,
                 repositories>>

(* a running child ends, with any exit code *)
ProcExit(p) ==
  /\ p \in DOMAIN procs
  /\ procs[p].state = "running"
  /\ procs' = [procs EXCEPT ![p].state = "exited"]
  /\ UNCHANGED <<now, token, issues, github, reqs, steps, channelVars,
                 repositories, runningAgents, resp>>

(* agentProcess.stdout / stderr on('data'): the child writes its next chunk
   to one of its two pipes, and the handler of that pipe pushes it, the
   stderr one with the prefix [ERROR]; the pipes deliver until 'close' *)
OnData(p, stream) ==
  /\ p \in DOMAIN procs
  /\ procs[p].state \in {"running", "exited"}
  /\ procs[p].emitted < MaxChunks
  /\ stream = "stderr" => procs[p].emitted < MaxErr
  /\ LET line == [n |-> procs[p].emitted + 1, error |-> stream = "stderr"]
     IN procs' = [procs EXCEPT ![p].emitted = @ + 1,
                               ![p].logs = push(@, line)]
  /\ UNCHANGED <<now, token, issues, github, reqs, steps, channelVars,
                 repositories, runningAgents, resp>>

(* a 'close' handler without runningAgents.delete *)
OnCloseKeep(p) ==
  /\ p \in DOMAIN procs
  /\ procs[p].state \in {"exited", "errored"}
  /\ procs' = [procs EXCEPT ![p].state = "closed"]
  /\ UNCHANGED <<now, token, issues, github, reqs, steps, channelVars,
                 repositories, runningAgents, resp>>

(* agentProcess.on('close'): deletes the key of the repository the handler
   was registered for, whichever process the key tracks by now *)
OnClose(p) ==
  /\ p \in DOMAIN procs
  /\ procs[p].state \in {"exited", "errored"}
  /\ procs' = [procs EXCEPT ![p].state = "closed"]
  /\ runningAgents' = MapDelete(runningAgents, procs[p].repo)
  /\ UNCHANGED <<now, token, issues, github, reqs, steps, channelVars,
                 repositories, resp>>

(* agentProcess.on('error'): the spawn failed *)
OnError(p) ==
  /\ p \in DOMAIN procs
  /\ procs[p].state = "failed"
  /\ procs' = [procs EXCEPT ![p].state = "errored"]
  /\ runningAgents' = MapDelete(runningAgents, procs[p].repo)
  /\ UNCHANGED <<now, token, issues, github, reqs, steps, channelVars,
                 repositories, resp>>

(* ---- specifications ---- *)
InitTables ==
  /\ now = 0
  /\ token \in BOOLEAN
  /\ issues = [t \in TaskIds |-> NewIssue]
  /\ github = [t \in TaskIds |-> AGENT_LABELS("pending")]
  /\ reqs = [r \in Reqs |-> IdleReq]
  /\ steps = [t \in TaskIds |-> {}]
  /\ questions = {}
  /\ waits = [w \in Waiters |-> IdleWait]
  /\ runningAgents = EmptyMap
  /\ procs = <<>>
  /\ resp = NoResponse

InitStore ==
  /\ InitTables
  /\ repositories = [k \in RepoIds |-> [localPath |-> "path"]]

StatusInputs == AgentStatus \cup {NULL, "bogus"}

(* the bodies POST /tasks/:issueId/status is sent: an error text goes with
   status failed *)
StatusBodies ==
  {<<s, NULL>> : s \in StatusInputs} \cup {<<"failed", "boom">>}

(* the bodies POST /tasks/:issueId/complete is sent *)
CompleteBodies == {<<NULL, NULL>>, <<"sum", NULL>>, <<"sum", "url">>}

(* the task store under one client at a time *)
NextTask ==
  \/ \E t \in AnyTaskId : SendClaim(1, t)
  \/ \E t \in TaskIds, b \in StatusBodies : SendStatus(1, t, b[1], b[2])
  \/ SendStatus(1, MissingTask, "failed", NULL)
  \/ \E t \in TaskIds, b \in CompleteBodies : SendComplete(1, t, b[1], b[2])
  \/ SendComplete(1, MissingTask, NULL, NULL)
  \/ ClaimHandler(1)
  \/ StatusHandler(1)
  \/ CompleteHandler(1)
  \/ \E ok \in BOOLEAN : GitHubGetIssue(1, ok)
  \/ \E ok \in BOOLEAN : GitHubUpdateIssue(1, ok)
  \/ Forget(1)
  \/ \E t \in TaskIds : CreatePlan(t, <<<<"a">>>>)
  \/ Tick

SpecTask == InitStore /\ [][NextTask]_vars

(* concurrent claim requests, one for each slot *)
NextClaim ==
  \/ \E r \in Reqs, t \in AnyTaskId : SendClaim(r, t)
  \/ \E r \in Reqs : ClaimHandler(r)
  \/ \E r \in Reqs, ok \in BOOLEAN : GitHubGetIssue(r, ok)
  \/ \E r \in Reqs, ok \in BOOLEAN : GitHubUpdateIssue(r, ok)
  \/ Tick

SpecClaim == InitStore /\ [][NextClaim]_vars

Plans ==
  {<<>>} \cup UNION {[1..n -> {<<"a">>, <<"_">>}] : n \in 1..MaxPlan}

(* the step indices a request names: those in use, a negative one and one
   that no row has *)
IndexInputs(t) ==
  IF t \in DOMAIN steps
  THEN Indices(t) \cup {0 - 1, MaxAfter + MaxSteps + 1}
  ELSE {0}

InitLedger == InitStore /\ ~token

(* the two ways to complete a task, from every claim status and with a
   description that already holds a summary *)
NextComplete ==
  \/ \E t \in TaskIds : SendClaim(1, t)
  \/ \E t \in TaskIds, s \in AcceptedStatus : SendStatus(1, t, s, NULL)
  \/ \E t \in TaskIds, b \in CompleteBodies :
       /\ Len(issues[t].description) < MaxSummaries
       /\ Send(1, "complete", t, NULL, NULL, b[1], b[2])
  \/ ClaimHandler(1)
  \/ StatusHandler(1)
  \/ CompleteHandler(1)
  \/ Forget(1)
  \/ Tick

SpecComplete == InitLedger /\ [][NextComplete]_vars

(* the task holds fewer than n step rows *)
Room(t, n) == t \in DOMAIN steps => Cardinality(steps[t]) < n

(* the progress ledger, at one instant *)
NextLedger ==
  \/ \E t \in AnyTaskId, p \in Plans : CreatePlan(t, p)
  \/ \E t \in AnyTaskId, s \in StepStatus \cup {NULL}, n \in {NULL, "n"} :
       \E i \in IndexInputs(t) : UpdateStep(t, i, s, n)
  \/ \E t \in AnyTaskId, d \in {<<"b">>, <<"_", "b">>, <<"_">>},
        a \in (0 - 2)..MaxAfter :
       Room(t, MaxSteps) /\ AddStep(t, d, a)

SpecLedger == InitLedger /\ [][NextLedger]_vars

(* the notes a step update carries: none, or a text *)
Notes == {NULL, "n"}

(* the steps of a plan as they are updated again and again while time
   passes *)
NextSteps ==
  \/ \E t \in TaskIds : CreatePlan(t, <<<<"a">>, <<"b">>>>)
  \/ \E t \in TaskIds, s \in StepStatus, n \in Notes :
       \E i \in Indices(t) : UpdateStep(t, i, s, n)
  \/ Tick

SpecSteps == InitLedger /\ [][NextSteps]_vars

(* step updates that name steps that are there and steps that are not, of
   tasks with a plan, with none, and of no task *)
NextUpdate ==
  \/ \E t \in AnyTaskId, p \in {<<<<"a">>>>, <<<<"a">>, <<"b">>>>} :
       CreatePlan(t, p)
  \/ \E t \in AnyTaskId, s \in StepStatus \cup {NULL}, n \in Notes :
       \E i \in IndexInputs(t) : UpdateStep(t, i, s, n)

SpecUpdate == InitLedger /\ [][NextUpdate]_vars

(* the bodies a plan request carries: no steps, an empty array, arrays of
   one or two values that are a text, a blank text or a number *)
JsonValues == {JsonString(<<"a">>), JsonString(<<"_">>), JsonNumber}

PlanBodies ==
  {JsonUndefined}
    \cup {JsonArray(items) : items \in UNION {[1..n -> JsonValues] : n \in 0..MaxPlan}}

(* plans that are accepted and plans that are refused, on tasks in every
   claim status *)
NextReject ==
  \/ \E t \in AnyTaskId, body \in PlanBodies : CreatePlanBody(t, body)
  \/ \E t \in TaskIds : UpdateStep(t, 0, "done", NULL)
  \/ \E t \in TaskIds, s \in AcceptedStatus : SendStatus(1, t, s, NULL)
  \/ StatusHandler(1)
  \/ Forget(1)

SpecReject == InitLedger /\ [][NextReject]_vars

(* the plans a request carries when their order and their text matter *)
OrderedPlans ==
  UNION {[1..n -> {<<"a">>, <<"b">>, <<"_", "a">>}] : n \in 1..MaxPlan}

(* the progress ledger under plans that are replaced *)
NextPlan ==
  \/ \E t \in TaskIds, p \in OrderedPlans : CreatePlan(t, p)
  \/ \E t \in TaskIds, s \in StepStatus, n \in {NULL, "n"} :
       \E i \in Indices(t) : UpdateStep(t, i, s, n)
  \/ \E t \in TaskIds : Room(t, MaxSteps) /\ AddStep(t, <<"c">>, 0 - 1)

SpecPlan == InitLedger /\ [][NextPlan]_vars

(* the progress ledger under insertions into plans whose steps have moved *)
NextInsert ==
  \/ \E t \in TaskIds : CreatePlan(t, <<<<"a">>, <<"b">>>>)
  \/ \E t \in TaskIds, s \in {"in_progress", "done"} :
       \E i \in Indices(t) : UpdateStep(t, i, s, "n")
  \/ \E t \in TaskIds, d \in {<<"c">>, <<"_", "c">>}, a \in (0 - 1)..MaxAfter :
       Room(t, MaxInsert) /\ AddStep(t, d, a)

SpecInsert == InitLedger /\ [][NextInsert]_vars

(* the progress ledger under requests in flight at once: a client names an
   afterIndex of the plan it sees when it sends the request *)
NextRace ==
  \/ \E r \in Reqs, t \in TaskIds, p \in {<<<<"a">>>>, <<<<"a">>, <<"a">>>>} :
       SendPlan(r, t, p)
  \/ \E r \in Reqs, t \in TaskIds :
       \E a \in (0 - 1)..(Cardinality(steps[t]) - 1) :
         SendStep(r, t, <<"c">>, a)
  \/ \E r \in Reqs : PlanHandler(r)
  \/ \E r \in Reqs : Room(reqs[r].task, MaxInsert) /\ StepHandler(r)
  \/ \E r \in Reqs : Forget(r)

SpecRace == InitLedger /\ [][NextRace]_vars

(* the values of the query parameter timeout: missing, not a number,
   negative, zero, one poll interval, more than the maximum *)
TimeoutQueries ==
  {<<>>, <<"x">>, <<"-", "1">>, <<"0">>, <<"5", "0", "0">>,
   <<"3", "0", "0", "0", "1">>}

(* the clarification channel *)
NextChannel ==
  \/ \E t \in AnyTaskId, q \in {<<"q">>, <<"_", "q">>, <<"_">>},
        c \in {None, Some(<<>>), Some(<<<<"x">>>>), Some(<<<<"_">>>>)} :
       Ask(t, q, c)
  \/ \E t \in AnyTaskId, a \in {<<"y">>, <<"_", "y">>, <<"_">>} : Answer(t, a)
  \/ \E w \in Waiters, t \in AnyTaskId, timeout \in TimeoutQueries :
       WaitStart(w, t, timeout)
  \/ \E w \in Waiters : WaitPoll(w)
  \/ \E w \in Waiters : WaitForget(w)
  \/ TickPoll

SpecChannel == InitLedger /\ [][NextChannel]_vars

(* the long polls of a task until they have all returned: requests arrive
   while the clock of the run lasts, then the longest timeout passes *)
NextWait ==
  \/ \E t \in TaskIds : Ask(t, <<"q">>, None)
  \/ \E t \in TaskIds : Answer(t, <<"y">>)
  \/ \E w \in Waiters, t \in AnyTaskId, timeout \in TimeoutQueries :
       now <= pollInterval * MaxPolls /\ WaitStart(w, t, timeout)
  \/ \E w \in Waiters : WaitPoll(w)
  \/ \E w \in Waiters : WaitForget(w)
  \/ TickPoll
  \/ TickFar

SpecWait == InitLedger /\ [][NextWait]_vars

(* time passes, and the event loop runs the timer of a sleeping poll *)
FairWait ==
  /\ SpecWait
  /\ WF_vars(TickPoll) /\ WF_vars(TickFar)
  /\ \A w \in Waiters : WF_vars(WaitPoll(w))

(* the long polls of a task whose client may go away *)
NextDisconnect ==
  \/ \E t \in TaskIds : Ask(t, <<"q">>, None)
  \/ \E t \in TaskIds : Answer(t, <<"y">>)
  \/ \E w \in Waiters, t \in TaskIds, timeout \in TimeoutQueries :
       WaitStart(w, t, timeout)
  \/ \E w \in Waiters : WaitPoll(w)
  \/ \E w \in Waiters : WaitDisconnect(w)
  \/ \E w \in Waiters : WaitForget(w)
  \/ TickPoll

SpecDisconnect == InitLedger /\ [][NextDisconnect]_vars

(* the dashboard lists the tasks that await input while questions are
   asked and answered *)
NextAwaiting ==
  \/ \E t \in AnyTaskId, q \in {<<"q">>, <<"r">>} : Ask(t, q, None)
  \/ \E t \in AnyTaskId, a \in {<<"y">>, <<"_">>} : Answer(t, a)
  \/ AwaitingAll
  \/ TickPoll

SpecAwaiting == InitLedger /\ [][NextAwaiting]_vars

(* the questions of a task next to the rest of its progress: plans, step
   updates and status reports, over two poll intervals *)
NextAnswered ==
  \/ \E t \in TaskIds : Ask(t, <<"q">>, None)
  \/ \E t \in TaskIds, a \in {<<"y">>, <<"z">>} : Answer(t, a)
  \/ \E t \in TaskIds : CreatePlan(t, <<<<"a">>>>)
  \/ \E t \in TaskIds : UpdateStep(t, 0, "done", "n")
  \/ \E t \in TaskIds : SendStatus(1, t, "failed", "boom")
  \/ StatusHandler(1)
  \/ Forget(1)
  \/ TickPoll

SpecAnswered == InitLedger /\ [][NextAnswered]_vars

(* the tasks of the listing: each has a priority and a creation time *)
ListedIds == 1..NListed

InitList ==
  /\ now = 0
  /\ token = FALSE
  /\ issues \in [ListedIds ->
        {[f \in DOMAIN NewIssue \cup {"priority", "createdAt"} |->
            IF f = "priority" THEN p
            ELSE IF f = "createdAt" THEN c ELSE NewIssue[f]]
         : p \in IssuePriority, c \in 0..MaxClock}]
  /\ github = [t \in TaskIds |-> AGENT_LABELS("pending")]
  /\ reqs = [r \in Reqs |-> IdleReq]
  /\ steps = [t \in ListedIds |-> {}]
  /\ questions = {}
  /\ waits = [w \in Waiters |-> IdleWait]
  /\ repositories = [k \in RepoIds |-> [localPath |-> "path"]]
  /\ runningAgents = EmptyMap
  /\ procs = <<>>
  /\ resp = NoResponse

(* agents list the claimable tasks of a repository and claim them *)
NextList ==
  \/ \E k \in AnyRepoId : ListTasks(k)
  \/ \E t \in ListedIds : SendClaim(1, t)
  \/ ClaimHandler(1)
  \/ Forget(1)

SpecList == InitList /\ [][NextList]_vars

(* the process supervisor: the six routes and the events of the children *)
InitSupervisor ==
  /\ InitTables
  /\ ~token
  /\ repositories \in [RepoIds -> {[localPath |-> NULL], [localPath |-> "path"]}]

WorkDirs == {NULL, "dir"}
Pids == 1..MaxProcs

NextSupervisor ==
  \/ \E k \in AnyRepoId, workDir \in WorkDirs, outcome \in SpawnOutcomes :
       Start(k, workDir, outcome)
  \/ \E k \in AnyRepoId : Stop(k)
  \/ \E k \in AnyRepoId : Status(k)
  \/ Running
  \/ \E outcomes \in [RepoIds -> SpawnOutcomes] : StartAll(outcomes)
  \/ StopAll
  \/ \E p \in Pids : ProcExit(p)
  \/ \E p \in Pids : OnClose(p)
  \/ \E p \in Pids : OnError(p)

SpecSupervisor == InitSupervisor /\ [][NextSupervisor]_vars

(* the event loop delivers the 'close' and 'error' events of a child that
   has ended; nothing makes a child end *)
FairSupervisor ==
  /\ SpecSupervisor
  /\ \A p \in Pids : WF_vars(OnClose(p)) /\ WF_vars(OnError(p))

(* one agent is started and writes its output while its status is read *)
NextLogs ==
  \/ \E outcome \in {"ok", "enoent"} : Start(1, NULL, outcome)
  \/ \E p \in Pids, stream \in {"stdout", "stderr"} : OnData(p, stream)
  \/ \E k \in RepoIds : Status(k)
  \/ \E p \in Pids : OnError(p)

SpecLogs == InitLedger /\ [][NextLogs]_vars

(* an agent is started, its task is planned (which sets it in progress), a
   question is asked and waited for, and the agent is stopped at any moment
   of this *)
NextHalt ==
  \/ Start(1, NULL, "ok")
  \/ \E k \in RepoIds : Stop(k)
  \/ StopAll
  \/ \E t \in TaskIds : CreatePlan(t, <<<<"a">>>>)
  \/ \E t \in TaskIds : Ask(t, <<"q">>, None)
  \/ \E t \in TaskIds : Answer(t, <<"y">>)
  \/ \E w \in Waiters, t \in TaskIds :
       WaitStart(w, t, <<"1", "0", "0", "0">>)
  \/ \E w \in Waiters : WaitPoll(w)
  \/ \E w \in Waiters : WaitForget(w)
  \/ TickPoll

SpecHalt == InitLedger /\ [][NextHalt]_vars

(* the progress ledger under insertions at the usual places and at the end
   of the exact integers *)
NextWide ==
  \/ \E t \in TaskIds : CreatePlan(t, <<<<"a">>>>)
  \/ \E t \in TaskIds, s \in StepStatus :
       \E i \in Indices(t) : UpdateStep(t, i, s, NULL)
  \/ \E t \in TaskIds, a \in {0 - 1, 0, Exact} :
       Room(t, MaxInsert) /\ AddStep(t, <<"c">>, a)

SpecWide == InitLedger /\ [][NextWide]_vars

(* two CLI workers on the tasks of one repository *)
NextWorkers ==
  \/ \E r \in Reqs, t \in TaskIds : claimTask(r, t)
  \/ \E r \in Reqs : ClaimHandler(r)
  \/ \E r \in Reqs : StatusHandler(r)
  \/ \E r \in Reqs : CompleteHandler(r)
  \/ \E r \in Reqs, ok \in BOOLEAN : GitHubGetIssue(r, ok)
  \/ \E r \in Reqs, ok \in BOOLEAN : GitHubUpdateIssue(r, ok)
  \/ \E r \in Reqs : processTask(r)
  \/ \E r \in Reqs, success \in BOOLEAN : runClaudeCode(r, success)

SpecWorkers == InitStore /\ [][NextWorkers]_vars

(* agents are started in a batch: the tasks of both repositories are claimed
   one after the other while the batches run *)
BatchIds == 1..NBatch

InitBatch ==
  /\ now = 0
  /\ token = FALSE
  /\ issues = [t \in BatchIds |-> NewIssue]
  /\ github = [t \in TaskIds |-> AGENT_LABELS("pending")]
  /\ reqs = [r \in Reqs |-> IdleReq]
  /\ steps = [t \in BatchIds |-> {}]
  /\ questions = {}
  /\ waits = [w \in Waiters |-> IdleWait]
  /\ repositories \in [RepoIds -> {[localPath |-> NULL], [localPath |-> "path"]}]
  /\ runningAgents = EmptyMap
  /\ procs = <<>>
  /\ resp = NoResponse

NextBatch ==
  \/ \E outcomes \in [RepoIds -> SpawnOutcomes] : StartAll(outcomes)
  \/ \E k \in RepoIds : Stop(k)
  \/ \E t \in BatchIds : SendClaim(1, t)
  \/ ClaimHandler(1)
  \/ Forget(1)

SpecBatch == InitBatch /\ [][NextBatch]_vars

(* ---- the task claim state machine ---- *)
ClaimsOn(t) == {r \in Reqs : reqs[r].op = "claim" /\ reqs[r].task = t}

Granted(t) ==
  {r \in ClaimsOn(t) :
     \/ reqs[r].pc \in {"labels_get", "labels_put"}
     \/ reqs[r].pc = "done" /\ reqs[r].result = "success"}

Rejected(t) ==
  {r \in ClaimsOn(t) :
     reqs[r].pc = "done" /\ reqs[r].result = "invalid_transition"}

Handled(t) == {r \in ClaimsOn(t) : reqs[r].pc # "queued"}

(* C1: of the claim requests in flight for one task, whatever the order in
   which their handler steps run, exactly one is granted and every other one
   is rejected as an invalid transition; the task is then assigned, with the
   claim time of the one grant. *)
C1_OneClaimWins ==
  \A t \in TaskIds :
    /\ Handled(t) = Granted(t) \cup Rejected(t)
    /\ Handled(t) = {} => issues[t].agentStatus = "pending"
    /\ Handled(t) # {} =>
         /\ Cardinality(Granted(t)) = 1
         /\ issues[t].agentStatus = "assigned"
         /\ issues[t].agentClaimedAt # None

(* two claims sent while the task was pending have both been answered *)
C1_Witness ==
  \E r1, r2 \in Reqs :
    /\ r1 # r2
    /\ reqs[r1].op = "claim" /\ reqs[r2].op = "claim"
    /\ reqs[r1].task = reqs[r2].task
    /\ reqs[r1].seen = "pending" /\ reqs[r2].seen = "pending"
    /\ reqs[r1].pc = "done" /\ reqs[r2].pc = "done"
    /\ reqs[r1].result = "success"
    /\ reqs[r2].result = "invalid_transition"

Rank(s) ==
  CASE s = "pending" -> 0
    [] s = "assigned" -> 1
    [] s = "in_progress" -> 2
    [] OTHER -> 3

(* C2: no step moves a task's claim status to an earlier status of
   pending < assigned < in_progress < (completed | failed). *)
C2_ForwardOnly ==
  [][\A t \in TaskIds :
       Rank(issues'[t].agentStatus) >= Rank(issues[t].agentStatus)]_vars

(* C3: a task whose claim status is failed stays failed. *)
C3_FailedStaysFailed ==
  [][\A t \in TaskIds :
       issues[t].agentStatus = "failed" => issues'[t].agentStatus = "failed"]_vars

(* C4: a claim is granted only on a task whose claim status is pending, and
   then sets it to assigned and stamps the claim time; on any other status
   and on a missing task it is rejected and the store is unchanged. *)
C4_ClaimOnlyPending ==
  [][\A r \in Reqs :
       LET t == reqs[r].task IN
       /\ (reqs[r].pc = "queued" /\ reqs[r].op = "claim"
             /\ reqs'[r].pc # "queued") =>
            IF t \in TaskIds /\ issues[t].agentStatus = "pending"
            THEN /\ issues'[t].agentStatus = "assigned"
                 /\ issues'[t].agentClaimedAt = Some(now)
                 /\ \/ reqs'[r].pc = "labels_get"
                    \/ reqs'[r].pc = "done" /\ reqs'[r].result = "success"
            ELSE /\ reqs'[r].pc = "done"
                 /\ reqs'[r].result =
                      IF t \in TaskIds THEN "invalid_transition" ELSE "not_found"
                 /\ issues' = issues
       /\ (reqs[r].pc \in {"labels_get", "labels_put"} /\ reqs'[r].pc = "done")
            => reqs'[r].result = "success"]_vars

(* a claim on a failed task has been rejected and a claim time is stamped *)
C4_Witness ==
  \E t \in TaskIds :
    /\ reqs[1].pc = "done" /\ reqs[1].op = "claim" /\ reqs[1].task = t
    /\ reqs[1].result = "invalid_transition"
    /\ issues[t].agentStatus = "failed"
    /\ issues[t].agentClaimedAt = Some(1)

(* ---- the progress ledger ---- *)
(* C5: the step indices of every task are exactly 0..N-1, N the number of
   its steps. *)
C5_ContiguousIndices ==
  \A t \in TaskIds : Indices(t) = 0..(Cardinality(steps[t]) - 1)

(* ---- the clarification channel ---- *)
(* C6: every task has at most one unanswered question. *)
C6_OneOpenQuestion ==
  \A t \in TaskIds : Cardinality(Unanswered(t)) <= 1

(* the question of a task that was asked last *)
LastAsked(t) ==
  CHOOSE q \in questions :
    q.taskId = t /\ \A o \in questions : o.taskId = t => o.id <= q.id

(* C7: when the long poll returns answered = true, the question it returns
   is the most recently asked question of the task, and that question has
   an answer. *)
C7_AnswerOfLastQuestion ==
  [][\A w \in Waiters :
       (waits[w].pc # "done" /\ waits'[w].pc = "done" /\ waits'[w].answered)
       => /\ waits'[w].question[1].id = LastAsked(waits'[w].task).id
          /\ LastAsked(waits'[w].task).answer # None]_vars

(* ---- the process supervisor ---- *)
(* this step wrote a response of route op for repository k *)
Answers(op, k) ==
  /\ resp' # resp
  /\ Len(resp'.data) >= 2
  /\ resp'.data[1] = op
  /\ resp'.data[2] = k

(* every key of the process table tracks a process of that repository *)
TrackedOwn ==
  \A k \in DOMAIN runningAgents :
    /\ k \in RepoIds
    /\ runningAgents[k].process \in DOMAIN procs
    /\ procs[runningAgents[k].process].repo = k

(* C8: a repository id tracks at most one process, which is a process of
   that repository; start(repoId) answers AlreadyRunning exactly when the
   repository is tracked, a start that succeeds tracks the process it has
   just spawned, and every other start leaves the table alone. *)
C8_StartExclusive ==
  /\ []TrackedOwn
  /\ [][\A k \in AnyRepoId :
          Answers("start", k) =>
            /\ resp'.result = "already_running" <=> k \in DOMAIN runningAgents
            /\ resp'.result = "success" =>
                 /\ Len(procs') = Len(procs) + 1
                 /\ k \in DOMAIN runningAgents'
                 /\ runningAgents'[k].process = Len(procs')
            /\ resp'.result # "success" => UNCHANGED <<runningAgents, procs>>
       ]_vars

(* a start was accepted for a repository whose earlier process has exited
   and been closed *)
C8_Witness ==
  /\ Len(procs) = 2
  /\ procs[1].repo = procs[2].repo
  /\ procs[1].state = "closed"
  /\ ~procs[1].signalled
  /\ resp = [result |-> "success", data |-> <<"start", procs[2].repo, 2>>]

(* C9: once a child has ended (it exited, or its spawn failed) the key of
   its repository is eventually absent from the process table; and a new
   child appears only in a step that answers start or start-all. *)
C9_EndDeregisters ==
  /\ \A p \in Pids :
       (p \in DOMAIN procs /\ procs[p].state \in {"exited", "failed"})
         ~> (p \in DOMAIN procs /\ procs[p].repo \notin DOMAIN runningAgents)
  /\ [][Len(procs') > Len(procs) =>
          /\ resp' # resp
          /\ resp'.result = "success"
          /\ Len(resp'.data) >= 1
          /\ resp'.data[1] \in {"start", "start-all"}]_vars

(* a child that nobody stopped has exited, its close event was delivered and
   its repository is absent *)
C9_Witness ==
  \E p \in DOMAIN procs :
    /\ procs[p].state = "closed"
    /\ ~procs[p].signalled
    /\ procs[p].repo \notin DOMAIN runningAgents

(* C10: stop(repoId) on an untracked repository answers NotRunning and
   changes nothing; on a tracked one it signals the tracked child (if alive),
   leaves the child's state as it is and removes the key in the same step;
   status reports running exactly for the tracked repositories, and the
   start that follows is not refused as AlreadyRunning. *)
C10_StopDeregistersAtOnce ==
  [][\A k \in AnyRepoId :
       /\ (resp' # resp /\ resp'.data = <<"stop", k>>) =>
            IF k \in DOMAIN runningAgents
            THEN LET p == runningAgents[k].process
                 IN /\ resp'.result = "success"
                    /\ runningAgents' =
                         [r \in DOMAIN runningAgents \ {k} |-> runningAgents[r]]
                    /\ procs' = [procs EXCEPT ![p].signalled =
                                   @ \/ procs[p].state = "running"]
            ELSE /\ resp'.result = "not_running"
                 /\ UNCHANGED <<runningAgents, procs>>
       /\ Answers("status", k) =>
            /\ resp'.data[3] <=> k \in DOMAIN runningAgents
            /\ UNCHANGED <<runningAgents, procs>>
       /\ (Answers("start", k) /\ k \notin DOMAIN runningAgents) =>
            resp'.result # "already_running"
    ]_vars

(* a repository was stopped and started again while the child that was
   signalled is still running *)
C10_Witness ==
  /\ Len(procs) = 2
  /\ procs[1].repo = procs[2].repo
  /\ procs[1].signalled
  /\ procs[1].state = "running"
  /\ procs[2].state = "running"
  /\ procs[2].repo \in DOMAIN runningAgents
  /\ runningAgents[procs[2].repo].process = 2

(* the processes the table tracks *)
Tracked == {runningAgents[k].process : k \in DOMAIN runningAgents}

(* C11: stop-all signals every tracked child (that is alive) and no other,
   answers the number and the ids of the repositories that were tracked, and
   leaves the table empty; /running answers the entries of the table and
   their number, so after stop-all it answers no agents. *)
C11_StopAllClears ==
  [][/\ (resp' # resp /\ Len(resp'.data) >= 1 /\ resp'.data[1] = "stop-all")
          => /\ resp'.result = "success"
             /\ resp'.data[2] = Cardinality(DOMAIN runningAgents)
             /\ resp'.data[3] = DOMAIN runningAgents
             /\ DOMAIN runningAgents' = {}
             /\ DOMAIN procs' = DOMAIN procs
             /\ \A p \in DOMAIN procs :
                  /\ procs'[p].state = procs[p].state
                  /\ procs'[p].signalled =
                       (procs[p].signalled
                          \/ (p \in Tracked /\ procs[p].state = "running"))
     /\ (resp' # resp /\ Len(resp'.data) >= 1 /\ resp'.data[1] = "running")
          => /\ resp'.data[2] =
                  {<<k, runningAgents[k].process>> : k \in DOMAIN runningAgents}
             /\ resp'.data[3] = Cardinality(DOMAIN runningAgents)
             /\ UNCHANGED <<runningAgents, procs>>
    ]_vars

(* stop-all has just stopped the agents of two repositories *)
C11_Witness ==
  /\ resp = [result |-> "success", data |-> <<"stop-all", 2, {1, 2}>>]
  /\ DOMAIN runningAgents = {}
  /\ Len(procs) = 2
  /\ procs[1].signalled /\ procs[2].signalled

(* ---- the progress ledger ---- *)
(* C12: after an accepted createPlan(t, plan), whatever rows the task held
   before, getSteps(t) is the plan: as many steps as the plan has, step i
   with index i, the text of the plan's entry i as sent, status pending and
   neither note nor timestamps. *)
C12_PlanReplaces ==
  [][\A t \in TaskIds, plan \in OrderedPlans :
       (CreatePlan(t, plan) /\ resp'.result = "success") =>
         LET got == getStepsOf(steps'[t])
         IN /\ Len(got) = Len(plan)
            /\ \A i \in 1..Len(plan) :
                 /\ got[i].idx = i - 1
                 /\ got[i].description = plan[i]
                 /\ got[i].status = "pending"
                 /\ got[i].note = NULL
                 /\ got[i].startedAt = None
                 /\ got[i].completedAt = None
    ]_vars

(* a plan of two different steps is stored, in the order it was sent *)
C12_Witness ==
  /\ resp.result = "success"
  /\ Cardinality(steps[1]) = 2
  /\ getSteps(1)[1].description = <<"b">>
  /\ getSteps(1)[2].description = <<"_", "a">>
  /\ \A s \in steps[1] : s.status = "pending"

(* C13: an accepted addStep(t, d, afterIndex) on a plan of N steps with
   indices 0..N-1 and -1 <= afterIndex <= N-1 gives N+1 steps: the steps up
   to afterIndex are as before, the step at afterIndex + 1 is new, pending,
   with the text d (trimmed by the route) and neither note nor timestamps,
   and every later step is as before but for its index, which is one more. *)
C13_InsertShifts ==
  [][\A t \in TaskIds, d \in {<<"c">>, <<"_", "c">>}, a \in (0 - 1)..MaxAfter :
       (/\ AddStep(t, d, a)
        /\ resp'.result = "success"
        /\ Indices(t) = 0..(Cardinality(steps[t]) - 1)
        /\ a <= Cardinality(steps[t]) - 1) =>
         LET old == getSteps(t)
             new == getStepsOf(steps'[t])
         IN /\ Len(new) = Len(old) + 1
            /\ \A i \in 1..Len(new) :
                 IF i <= a + 1 THEN new[i] = old[i]
                 ELSE IF i = a + 2
                 THEN /\ new[i] = NewStep(new[i].id, a + 1, Trim(d))
                      /\ \A j \in 1..Len(old) : old[j].id # new[i].id
                 ELSE new[i] = [old[i - 1] EXCEPT !.idx = i - 1]
    ]_vars

(* a step was inserted in the middle of a plan whose last step was done *)
C13_Witness ==
  /\ resp.result = "success"
  /\ Cardinality(steps[1]) = 3
  /\ Indices(1) = 0..2
  /\ getSteps(1)[1].description = <<"a">>
  /\ getSteps(1)[2].description = <<"c">>
  /\ getSteps(1)[2].status = "pending"
  /\ getSteps(1)[3].description = <<"b">>
  /\ getSteps(1)[3].status = "done"
  /\ getSteps(1)[3].note = "n"

(* C14: with plan and add-step requests in flight at once, each add-step
   naming an afterIndex of the plan its client saw, the steps of every task
   in index order carry the indices 0, 1, 2, ... *)
C14_ConcurrentContiguous ==
  \A t \in TaskIds :
    \A i \in 1..Cardinality(steps[t]) : getSteps(t)[i].idx = i - 1

(* ---- the clarification channel ---- *)
(* C15: a question that has an answer never changes again: whatever the
   step (ask, answer, createPlan, updateStep, a status report), the row is
   in the table afterwards with the same answer and the same answered-at. *)
C15_AnswerImmutable ==
  [][\A q \in questions : q.answer # None => q \in questions']_vars

(* two questions of a task were answered at different instants, and the
   task has reported a status since *)
C15_Witness ==
  /\ \E q1, q2 \in questions :
       /\ q1.taskId = q2.taskId
       /\ q1.answeredAt = Some(0)
       /\ q2.answeredAt = Some(pollInterval)
       /\ q1.answer # q2.answer
  /\ issues[1].agentStatus = "failed"
  /\ steps[1] # {}

(* C16: answer(t, text) with a text that is not blank answers
   NoPendingQuestion and leaves the table as it is when the task has no
   unanswered question; otherwise it writes the trimmed text and the instant
   to one row, an unanswered question of the task none of whose unanswered
   questions was asked later, and every other row stays as it is. *)
C16_AnswersLatestPending ==
  [][\A t \in TaskIds, a \in {<<"y">>, <<"_", "y">>} :
       Answer(t, a) =>
         IF Unanswered(t) = {}
         THEN /\ resp'.result = "no_pending_question"
              /\ questions' = questions
         ELSE /\ resp'.result = "success"
              /\ \E q \in Unanswered(t) :
                   /\ \A o \in Unanswered(t) : o.askedAt <= q.askedAt
                   /\ questions' =
                        (questions \ {q}) \cup
                          {[q EXCEPT !.answer = <<"y">>,
                                     !.answeredAt = Some(now)]}
    ]_vars

(* of two open questions of a task the later one was answered *)
C16_Witness ==
  /\ resp.result = "success"
  /\ \E q1, q2 \in questions :
       /\ q1.taskId = q2.taskId
       /\ q1.askedAt < q2.askedAt
       /\ q1.answer = None
       /\ q2.answer = <<"y">>

(* C17: when the only question of a task has been answered, a long poll for
   the task, whatever its timeout, responds in the step in which it is
   received, without a poll: answered = true, with that question and its
   answer. *)
C17_AnsweredAtOnce ==
  [][\A w \in Waiters, t \in TaskIds :
       (/\ waits[w].pc = "idle"
        /\ waits'[w].pc # "idle"
        /\ waits'[w].task = t
        /\ Cardinality(AllQuestions(t)) = 1
        /\ Unanswered(t) = {}) =>
         /\ waits'[w].pc = "done"
         /\ waits'[w].result = "ok"
         /\ waits'[w].answered
         /\ waits'[w].question # None
         /\ waits'[w].question[1] \in AllQuestions(t)
         /\ now' = now
    ]_vars

(* a long poll has returned the answer of the only question of its task *)
C17_Witness ==
  \E w \in Waiters :
    /\ waits[w].pc = "done"
    /\ waits[w].answered
    /\ waits[w].question # None
    /\ waits[w].question[1].answer = <<"y">>
    /\ AllQuestions(waits[w].task) = {waits[w].question[1]}

(* C18: a long poll suspended on the pending question q returns
   answered = true with q at the poll tick that finds q answered, when that
   tick comes before the clamped timeout has elapsed. *)
C18_AnswerEndsWait ==
  [][\A w \in Waiters :
       (/\ waits[w].pc = "sleep"
        /\ waits'[w] # waits[w]
        /\ now - waits[w].startTime < waits[w].pollTimeout
        /\ \E q \in questions :
             q.id = waits[w].pending[1].id /\ q.answer # None) =>
         /\ waits'[w].pc = "done"
         /\ waits'[w].answered
         /\ waits'[w].question[1].id = waits[w].pending[1].id
    ]_vars

(* what the clamp of each timeout of TimeoutQueries has to be *)
ExpectedTimeout(timeout) ==
  IF timeout = <<"5", "0", "0">> THEN 500
  ELSE IF timeout = <<"3", "0", "0", "0", "1">> THEN 30000
  ELSE 0

(* C19: every long poll ends. Its wait is the requested timeout clamped to
   0..30000 ms: a missing, non-numeric, negative or zero timeout answers at
   once, a timeout above 30000 waits 30000. A poll that finds its timeout
   elapsed returns answered = false with the pending question as a normal
   result. *)
C19_WaitTerminates ==
  /\ \A w \in Waiters : (waits[w].pc = "sleep") ~> (waits[w].pc = "done")
  /\ [][\A w \in Waiters :
         /\ \A t \in TaskIds, timeout \in TimeoutQueries :
              (/\ WaitStart(w, t, timeout)
               /\ getAnswer(t) = {}
               /\ getPendingQuestion(t) # {}) =>
                IF ExpectedTimeout(timeout) = 0
                THEN /\ waits'[w].pc = "done"
                     /\ waits'[w].result = "ok"
                     /\ ~waits'[w].answered
                     /\ waits'[w].question # None
                     /\ waits'[w].question[1] \in getPendingQuestion(t)
                ELSE /\ waits'[w].pc = "sleep"
                     /\ waits'[w].pollTimeout = ExpectedTimeout(timeout)
                     /\ waits'[w].pending[1] \in getPendingQuestion(t)
         /\ (/\ waits[w].pc = "sleep"
             /\ waits'[w] # waits[w]
             /\ now - waits[w].startTime >= waits[w].pollTimeout) =>
              /\ waits'[w].pc = "done"
              /\ waits'[w].result = "ok"
              /\ ~waits'[w].answered
              /\ waits'[w].question = waits[w].pending
      ]_vars

(* a long poll that waited the whole of the largest timeout has returned
   answered = false with the question it was waiting on *)
C19_Witness ==
  \E w \in Waiters :
    /\ waits[w].pc = "done"
    /\ waits[w].result = "ok"
    /\ ~waits[w].answered
    /\ waits[w].question # None
    /\ waits[w].pollTimeout = maxPollTimeout
    /\ now >= maxPollTimeout

(* C20: a long poll on an existing task that was never asked a question
   returns at once, whatever its timeout, with answered = false and no
   question, as a normal result, and changes nothing that is stored. *)
C20_NoQuestionNoWait ==
  [][\A w \in Waiters, t \in TaskIds, timeout \in TimeoutQueries :
       (WaitStart(w, t, timeout) /\ AllQuestions(t) = {}) =>
         /\ waits'[w].pc = "done"
         /\ waits'[w].result = "ok"
         /\ ~waits'[w].answered
         /\ waits'[w].question = None
         /\ questions' = questions
         /\ steps' = steps
         /\ issues' = issues
    ]_vars

(* a long poll has returned from a task that has no question *)
C20_Witness ==
  \E w \in Waiters :
    /\ waits[w].pc = "done"
    /\ waits[w].task \in DOMAIN issues
    /\ AllQuestions(waits[w].task) = {}
    /\ waits[w].result = "ok"
    /\ ~waits[w].answered
    /\ waits[w].question = None

(* C21: once the client of a suspended long poll has disconnected, the poll
   loop of that request reads the store no more. *)
C21_DisconnectAborts ==
  [][\A w \in Waiters :
       (waits[w].pc = "sleep" /\ waits[w].closed) =>
         ~(/\ WaitPoll(w)
           /\ now - waits[w].startTime < waits[w].pollTimeout)
    ]_vars

(* C22: a status report is accepted only for assigned, in_progress,
   completed and failed; for pending, for a missing status and for any other
   value it is rejected and the task is unchanged, and for a task that does
   not exist it answers not found. No step of the agent API takes a task
   that has left pending back to pending. *)
C22_StatusValidated ==
  [][/\ \A r \in Reqs :
          LET t == reqs[r].task
              s == reqs[r].status IN
          (reqs[r].pc = "queued" /\ reqs[r].op = "status"
             /\ reqs'[r].pc # "queued") =>
            IF s \notin {"assigned", "in_progress", "completed", "failed"}
            THEN /\ reqs'[r].pc = "done"
                 /\ reqs'[r].result = "invalid_status"
                 /\ issues' = issues
            ELSE IF t \notin TaskIds
            THEN /\ reqs'[r].pc = "done"
                 /\ reqs'[r].result = "not_found"
                 /\ issues' = issues
            ELSE /\ issues'[t].agentStatus = s
                 /\ \/ reqs'[r].pc = "labels_get"
                    \/ reqs'[r].pc = "done" /\ reqs'[r].result = "success"
     /\ \A t \in TaskIds :
          issues[t].agentStatus # "pending" =>
            issues'[t].agentStatus # "pending"
    ]_vars

(* a status report has been rejected as invalid on a task that has failed *)
C22_Witness ==
  \E t \in TaskIds :
    /\ reqs[1].pc = "done" /\ reqs[1].op = "status" /\ reqs[1].task = t
    /\ reqs[1].seen = "failed"
    /\ reqs[1].result = "invalid_status"
    /\ issues[t].agentStatus = "failed"

(* C23: a status report of failed carries an error text, and once it has
   succeeded the task's stored error is that text and its workflow status is
   todo; after a successful report of completed the task has a completion
   time and its workflow status is review. *)
C23_FailedKeepsError ==
  [][\A r \in Reqs :
       LET t == reqs[r].task
           s == reqs[r].status IN
       (reqs[r].pc = "queued" /\ reqs[r].op = "status"
          /\ reqs'[r].pc # "queued" /\ t \in TaskIds) =>
         /\ s = "failed" =>
              /\ reqs[r].error # NULL
              /\ issues'[t].agentError = reqs[r].error
              /\ issues'[t].status = "todo"
         /\ s = "completed" =>
              /\ issues'[t].agentCompletedAt = Some(now)
              /\ issues'[t].status = "review"
    ]_vars

(* C24: from every state, complete leaves the claim fields of the task as a
   status report of completed does: claim status completed, a completion
   time, workflow status review. Complete also appends the summary, and the
   PR URL given with it, to the description, of which nothing is dropped;
   the status report leaves the description alone. *)
C24_CompleteAsStatus ==
  [][\A r \in Reqs :
       LET t == reqs[r].task
           viaStatus == update(t, StatusUpdates("completed", NULL))[t]
           old == issues[t].description
       IN
       (reqs[r].pc = "queued" /\ reqs'[r].pc # "queued" /\ t \in TaskIds) =>
         /\ reqs[r].op = "complete" =>
              /\ \A f \in DOMAIN issues[t] \ {"description"} :
                   issues'[t][f] = viaStatus[f]
              /\ issues'[t].agentStatus = "completed"
              /\ issues'[t].agentCompletedAt = Some(now)
              /\ issues'[t].status = "review"
              /\ Len(issues'[t].description) >= Len(old)
              /\ SubSeq(issues'[t].description, 1, Len(old)) = old
              /\ issues'[t].description =
                   IF reqs[r].summary = NULL THEN old
                   ELSE Append(old, <<reqs[r].summary, reqs[r].prUrl>>)
         /\ (reqs[r].op = "status" /\ reqs[r].status = "completed") =>
              /\ issues'[t] = viaStatus
              /\ issues'[t].agentStatus = "completed"
              /\ issues'[t].agentCompletedAt = Some(now)
              /\ issues'[t].status = "review"
              /\ issues'[t].description = old
    ]_vars

(* a task completed twice holds both summaries, the PR URL with the second *)
C24_Witness ==
  \E t \in TaskIds :
    /\ reqs[1].pc = "done" /\ reqs[1].op = "complete" /\ reqs[1].task = t
    /\ reqs[1].result = "success"
    /\ issues[t].agentStatus = "completed"
    /\ issues[t].description = <<<<"sum", NULL>>, <<"sum", "url">>>>

(* C25: a plan that is accepted sets the claim status of the task to
   in_progress exactly when it was pending or assigned; on a task that is
   in_progress, completed or failed it leaves the claim status, the
   completion time, the error and the rest of the task as they were. *)
C25_PlanPromotes ==
  [][\A t \in TaskIds, plan \in Plans :
       (CreatePlan(t, plan) /\ resp'.result = "success") =>
         /\ issues[t].agentStatus \in {"pending", "assigned"} =>
              issues'[t].agentStatus = "in_progress"
         /\ issues[t].agentStatus \in {"in_progress", "completed", "failed"} =>
              /\ issues'[t].agentStatus = issues[t].agentStatus
              /\ issues'[t].agentCompletedAt = issues[t].agentCompletedAt
              /\ issues'[t].agentError = issues[t].agentError
              /\ issues'[t] = issues[t]
    ]_vars

(* a failed task has a plan and is still failed, its error kept *)
C25_Witness ==
  \E t \in TaskIds :
    /\ resp.result = "success"
    /\ steps[t] # {}
    /\ issues[t].agentStatus = "failed"
    /\ issues[t].agentError = "boom"
    /\ issues[t].status = "todo"

(* ---- the listing of claimable tasks ---- *)
(* the tasks of an array *)
Listed(tasks) == {tasks[i] : i \in DOMAIN tasks}

(* C26: the listing of a repository holds, once each, exactly the tasks of
   that repository whose claim status is pending and that have a GitHub
   issue number, so no task that has been claimed; a repository that does
   not exist is not found; the listing changes nothing that is stored. *)
C26_ListsClaimable ==
  [][\A k \in AnyRepoId :
       ListTasks(k) =>
         /\ UNCHANGED <<issues, github, steps, questions, repositories,
                        runningAgents, procs>>
         /\ k \notin RepoIds => resp'.result = "not_found"
         /\ k \in RepoIds =>
              LET tasks == resp'.data[3]
                  claimable ==
                    {t \in DOMAIN issues :
                       /\ repoId(t) = k
                       /\ issues[t].agentStatus = "pending"
                       /\ githubIssueNumber(t) # 0}
              IN /\ resp'.result = "success"
                 /\ Listed(tasks) = claimable
                 /\ Len(tasks) = Cardinality(claimable)
                 /\ \A t \in DOMAIN issues :
                      issues[t].agentClaimedAt # None => t \notin Listed(tasks)
    ]_vars

(* the listing of repository 1 holds task 3 and no longer task 1, which has
   been claimed *)
C26_Witness ==
  /\ resp.result = "success"
  /\ resp.data = <<"tasks", 1, <<3>>>>
  /\ issues[1].agentStatus = "assigned"
  /\ issues[3].agentStatus = "pending"

(* critical > high > medium > low *)
PriorityRank(p) ==
  CASE p = <<"c", "r", "i", "t", "i", "c", "a", "l">> -> 4
    [] p = <<"h", "i", "g", "h">> -> 3
    [] p = <<"m", "e", "d", "i", "u", "m">> -> 2
    [] p = <<"l", "o", "w">> -> 1

(* C27: in a listing, a task comes before every task of lower priority
   (critical, high, medium, low) and, among tasks of one priority, before
   every task created later. *)
C27_ListedByPriority ==
  [][\A k \in RepoIds :
       ListTasks(k) =>
         LET tasks == resp'.data[3] IN
         \A i, j \in DOMAIN tasks :
           i < j =>
             \/ PriorityRank(issues[tasks[i]].priority)
                  > PriorityRank(issues[tasks[j]].priority)
             \/ /\ issues[tasks[i]].priority = issues[tasks[j]].priority
                /\ issues[tasks[i]].createdAt <= issues[tasks[j]].createdAt
    ]_vars

(* ---- step updates ---- *)
(* C28: a step update to in_progress sets the start time of the step, and
   one to done, failed or skipped sets its completion time; the step then
   has the status of the call, so a second call with the same status leaves
   everything but the note and the times as the first call left it; a call
   without a note keeps the note of the step. *)
C28_StepUpdate ==
  [][\A t \in TaskIds, s \in StepStatus, n \in Notes :
       \A i \in Indices(t) :
       (UpdateStep(t, i, s, n) /\ resp'.result = "success") =>
         \A old \in steps[t] :
           old.idx = i =>
             \E new \in steps'[t] :
               /\ new.id = old.id
               /\ new.status = s
               /\ s = "in_progress" => new.startedAt = Some(now)
               /\ s \in {"done", "failed", "skipped"} =>
                    new.completedAt = Some(now)
               /\ new.note = IF n = NULL THEN old.note ELSE n
               /\ old.status = s =>
                    \A f \in DOMAIN old \ {"note", "startedAt", "completedAt"} :
                      new[f] = old[f]
    ]_vars

(* a step started with a note at instant 0 was finished at instant 1 and
   has kept its note *)
C28_Witness ==
  \E t \in TaskIds :
    \E s \in steps[t] :
      /\ s.status = "done"
      /\ s.note = "n"
      /\ s.startedAt = Some(0)
      /\ s.completedAt = Some(1)
      /\ resp.result = "success"

(* C29: a step update with a status and an index that are well formed
   answers not found when the task has no step at that index, a task with no
   plan included, and then changes no step; when it succeeds, every other
   step of the task and every step of the other tasks is as before, and the
   step keeps its id, its index and its description. A step update that is
   refused changes no step, and none changes a task. *)
C29_UpdateOneStep ==
  [][\A t \in TaskIds, s \in StepStatus \cup {NULL}, n \in Notes :
       \A i \in IndexInputs(t) :
         UpdateStep(t, i, s, n) =>
           /\ issues' = issues
           /\ resp'.result # "success" => steps' = steps
           /\ (s \in StepStatus /\ i >= 0) =>
                IF \A old \in steps[t] : old.idx # i
                THEN /\ resp'.result = "not_found"
                     /\ steps' = steps
                ELSE /\ resp'.result = "success"
                     /\ \A u \in DOMAIN steps \ {t} : steps'[u] = steps[u]
                     /\ Cardinality(steps'[t]) = Cardinality(steps[t])
                     /\ \A old \in steps[t] :
                          IF old.idx # i THEN old \in steps'[t]
                          ELSE \E new \in steps'[t] :
                                 /\ new.id = old.id
                                 /\ new.idx = old.idx
                                 /\ new.description = old.description
    ]_vars

(* of the two steps of a task, one has been updated and the other is as the
   plan created it; an update of a step that is not there was not found *)
C29_Witness ==
  \E t \in TaskIds :
    /\ resp.result = "not_found"
    /\ Cardinality(steps[t]) = 2
    /\ \E a, b \in steps[t] :
         /\ a.idx = 0 /\ a.status = "done" /\ a.note = "n"
         /\ b.idx = 1 /\ b.status = "pending" /\ b.note = NULL
         /\ b.completedAt = None

(* ---- plans that are refused ---- *)
(* C30: a plan with no step list, with an empty one, or with an entry that
   is blank or not a string is refused as invalid, and a plan for a task
   that does not exist is not found; a plan that is refused deletes no step
   and leaves the claim status, and all of the task, as it was. *)
C30_PlanRejected ==
  [][\A t \in AnyTaskId, body \in PlanBodies :
       CreatePlanBody(t, body) =>
         LET malformed ==
               \/ body.type = "undefined"
               \/ Len(body.items) = 0
               \/ \E i \in 1..Len(body.items) :
                    \/ body.items[i].type # "string"
                    \/ \A c \in 1..Len(body.items[i].text) :
                         body.items[i].text[c] = "_"
         IN /\ t \notin TaskIds => resp'.result = "not_found"
            /\ (t \in TaskIds /\ malformed) => resp'.result = "validation"
            /\ (t \in TaskIds /\ ~malformed) => resp'.result = "success"
            /\ resp'.result # "success" => steps' = steps /\ issues' = issues
    ]_vars

(* a plan has been refused as invalid on a completed task that has a step *)
C30_Witness ==
  \E t \in TaskIds :
    /\ resp.result = "validation"
    /\ steps[t] # {}
    /\ issues[t].agentStatus = "completed"

(* ---- the tasks that await input ---- *)
(* C31: the list of tasks awaiting input has one entry for every task that
   has an unanswered question and none for any other task; the entry of a
   task holds the question getPendingQuestion gives for it, so no question
   that has been answered. *)
C31_AwaitingOnePerTask ==
  [][AwaitingAll =>
       LET list == resp'.data[2] IN
       \A t \in TaskIds :
         LET entries == {i \in DOMAIN list : list[i].taskId = t} IN
         IF Unanswered(t) = {}
         THEN entries = {}
         ELSE /\ Cardinality(entries) = 1
              /\ \A i \in entries : list[i].question \in getPendingQuestion(t)
    ]_vars
(* ---- the batch start ---- *)
(* C32: POST /start-all gives every repository exactly one outcome out of
   started, already_running, no_tasks, no_local_path and error.  A repository
   is started or in error exactly when it has a claimable task, is not
   tracked and has a local path; a started one is tracked afterwards with the
   new process; a tracked one keeps its entry and gets no second process;
   and the outcome of one repository never depends on an error of another. *)
C32_StartAllOutcomes ==
  [][(\E outcomes \in [RepoIds -> SpawnOutcomes] : StartAll(outcomes)) =>
       LET results == resp'.data[2]
           eligible(k) == /\ findPendingByRepo(k) # {}
                          /\ k \notin DOMAIN runningAgents
                          /\ repositories[k].localPath # NULL
           born == (Len(procs) + 1)..Len(procs')
       IN \A k \in RepoIds :
            /\ Cardinality({i \in DOMAIN results : results[i][1] = k}) = 1
            /\ \A i \in DOMAIN results :
                 results[i][1] = k =>
                   /\ results[i][2] \in {"started", "already_running",
                                         "no_tasks", "no_local_path", "error"}
                   /\ results[i][2] \in {"started", "error"} <=> eligible(k)
                   /\ results[i][2] = "no_tasks" <=> findPendingByRepo(k) = {}
                   /\ results[i][2] = "started" =>
                        /\ k \in DOMAIN runningAgents'
                        /\ runningAgents'[k].process = results[i][3]
                        /\ results[i][3] \in born
                        /\ procs'[results[i][3]].repo = k
                   /\ results[i][2] # "started" =>
                        /\ \A p \in born : procs'[p].repo # k
                        /\ k \in DOMAIN runningAgents' <=> k \in DOMAIN runningAgents
            /\ k \in DOMAIN runningAgents =>
                 /\ k \in DOMAIN runningAgents'
                 /\ runningAgents'[k] = runningAgents[k]
                 /\ \A p \in born : procs'[p].repo # k]_vars

(* a batch in which the start of the first repository of the loop threw and
   the next repository was started all the same *)
C32_Witness ==
  /\ Len(resp.data) >= 2
  /\ resp.data[1] = "start-all"
  /\ \E i, j \in DOMAIN resp.data[2] :
       /\ i < j
       /\ resp.data[2][i][2] = "error"
       /\ resp.data[2][j][2] = "started"
       /\ resp.data[2][j][1] \in DOMAIN runningAgents

(* ---- the label sync is best effort ---- *)
(* C33: claim, status and complete write the task before the label sync is
   attempted, and a sync that fails at getIssue or at updateIssue neither
   fails nor undoes the operation: the tables are left as written and the
   response reports success with the status that was written. *)
C33_SyncFailureSwallowed ==
  [][/\ reqs[1].pc = "queued" /\ reqs'[1].pc = "labels_get" =>
          /\ reqs[1].op \in {"claim", "status", "complete"}
          /\ issues'[reqs[1].task].agentStatus = reqs'[1].newStatus
     /\ GitHubGetIssue(1, FALSE) \/ GitHubUpdateIssue(1, FALSE) =>
          /\ issues' = issues
          /\ github' = github
          /\ reqs'[1].pc = "done"
          /\ reqs'[1].result = "success"
          /\ reqs'[1].issue = reqs[1].newStatus]_vars

(* a completion has been answered with success after its sync failed: the
   task is completed and GitHub still shows another label *)
C33_Witness ==
  /\ token
  /\ reqs[1].pc = "done"
  /\ reqs[1].op = "complete"
  /\ reqs[1].result = "success"
  /\ reqs[1].issue = "completed"
  /\ issues[reqs[1].task].agentStatus = "completed"
  /\ github[reqs[1].task] # AGENT_LABELS("completed")

(* ---- the rolling log buffer ---- *)
(* C34: the log buffer of a supervised process never holds more than 100
   entries; after n chunks it holds the last min(100, n) of them in the order
   of their arrival; and GET /status/:repoId returns the last min(20, length)
   entries of the buffer of the tracked process. *)
C34_RollingLogs ==
  [][/\ \A p \in DOMAIN procs' :
          LET logs == procs'[p].logs
              emitted == procs'[p].emitted
          IN /\ Len(logs) <= logsMax
             /\ Len(logs) = IF emitted < logsMax THEN emitted ELSE logsMax
             /\ \A i \in DOMAIN logs : logs[i].n = emitted - Len(logs) + i
     /\ \A k \in RepoIds :
          Status(k) /\ k \in DOMAIN runningAgents =>
            LET logs == procs[runningAgents[k].process].logs
                recent == resp'.data[5]
                count == IF Len(logs) < recentLogs THEN Len(logs)
                         ELSE recentLogs
            IN /\ Len(recent) = count
               /\ \A i \in 1..count :
                    recent[i] = logs[Len(logs) - count + i]]_vars

(* the status of an agent whose buffer has dropped its oldest entries: the
   reply ends with the newest chunk, the 102nd *)
C34_Witness ==
  /\ Len(resp.data) = 5
  /\ resp.data[1] = "status"
  /\ Len(resp.data[5]) = recentLogs
  /\ resp.data[5][recentLogs].n > logsMax
  /\ \E p \in DOMAIN procs :
       /\ Len(procs[p].logs) = logsMax
       /\ procs[p].logs[1].n > 1

(* ---- the close event of a replaced process ---- *)
(* C35: the end of a process deregisters only that process: the 'close'
   event of a process that the table no longer tracks (it was stopped, and
   another was started for the repository) leaves the table as it is, so
   that the later process stays tracked. *)
C35_ExitDeregistersOwn ==
  [][\A p \in Pids :
       /\ OnClose(p)
       /\ procs[p].repo \in DOMAIN runningAgents
       /\ runningAgents[procs[p].repo].process # p
       => runningAgents' = runningAgents]_vars

(* ---- a long poll that times out ---- *)
(* C36: whenever the long poll returns answered = false together with a
   question, that question is unanswered in the store at the moment of the
   return, also when an answer was stored during the last poll interval
   before the timeout. *)
C36_TimeoutQuestionStillOpen ==
  [][\A w \in Waiters :
       /\ waits[w].pc # "done"
       /\ waits'[w].pc = "done"
       /\ ~waits'[w].answered
       /\ waits'[w].question # None
       => \E q \in questions' :
            /\ q.id = waits'[w].question[1].id
            /\ q.answer = None]_vars

(* ---- stopping an agent ---- *)
(* C37: stop and stop-all change the process table only: the tasks (with the
   claim status the stopped agent gave them), the steps, the questions and
   the long polls are as before; and a suspended long poll ends only by
   returning, with an answer or once its timeout has passed. *)
C37_StopTouchesProcessTableOnly ==
  [][/\ (StopAll \/ \E k \in AnyRepoId : Stop(k)) =>
          UNCHANGED <<issues, github, reqs, steps, questions, waits>>
     /\ \A w \in Waiters :
          waits[w].pc = "sleep" /\ waits'[w].pc # "sleep" =>
            /\ waits'[w].pc = "done"
            /\ \/ waits'[w].answered
               \/ now - waits[w].startTime >= waits[w].pollTimeout]_vars

(* the agent of repository 1 has been stopped while its task was in progress
   with a plan and a long poll for the open question of the task was
   suspended *)
C37_Witness ==
  /\ resp = [result |-> "success", data |-> <<"stop", 1>>]
  /\ 1 \notin DOMAIN runningAgents
  /\ procs[1].signalled
  /\ issues[1].agentStatus = "in_progress"
  /\ steps[1] # {}
  /\ Unanswered(1) # {}
  /\ \E w \in Waiters : waits[w].pc = "sleep" /\ waits[w].task = 1

(* ---- the indices of the steps ---- *)
(* C38: after any sequence of createPlan, addStep and updateStep calls no two
   steps of a task have the same index. *)
C38_IndexUnique ==
  \A t \in DOMAIN steps :
    \A s1, s2 \in steps[t] : s1.idx = s2.idx => s1 = s2

(* ---- the timestamps of the steps ---- *)
(* C39: at every state a step that is done, failed or skipped has a
   completion time and a step that is in progress has a start time; and the
   rows createPlan and addStep store are pending with neither time, and stay
   so until a step update writes them. *)
C39_StampsFollowStatus ==
  /\ [](\A t \in DOMAIN steps : \A s \in steps[t] :
          /\ s.status \in {"done", "failed", "skipped"} => s.completedAt # None
          /\ s.status = "in_progress" => s.startedAt # None)
  /\ [][\A t \in TaskIds :
          LET fresh(s) == /\ s.status = "pending"
                          /\ s.startedAt = None
                          /\ s.completedAt = None
              updates == \E s \in StepStatus, i \in Indices(t) :
                           UpdateStep(t, i, s, NULL)
          IN /\ CreatePlan(t, <<<<"a">>>>) => \A s \in steps'[t] : fresh(s)
             /\ ~updates =>
                  \A s \in steps'[t] :
                    (\A o \in steps[t] : o.id # s.id \/ fresh(o)) => fresh(s)
       ]_vars

(* a plan with a step that failed, a step in progress and a step that was
   inserted and has not been updated *)
C39_Witness ==
  \E t \in TaskIds : \E s1, s2, s3 \in steps[t] :
    /\ s1.status = "failed" /\ s1.completedAt # None
    /\ s2.status = "in_progress" /\ s2.startedAt # None
    /\ s3.status = "pending" /\ s3.startedAt = None /\ s3.completedAt = None
    /\ s3.description = <<"c">>

(* ---- the CLI worker ---- *)
(* worker r has claimed task t and is not done with it *)
Holds(r, t) ==
  /\ reqs[r].task = t
  /\ \/ reqs[r].op = "claim" /\ reqs[r].pc \in {"labels_get", "labels_put"}
     \/ reqs[r].op = "claim" /\ reqs[r].pc = "done" /\ reqs[r].result = "success"
     \/ reqs[r].op \in {"status", "agent", "complete"} /\ reqs[r].pc # "idle"

(* C40: a CLI worker works only on a task it has claimed.  At most one
   worker at a time has claimed a task; a worker comes to have claimed it
   only in the step that takes it from pending to assigned, and a task never
   becomes pending again, so the agent program runs for a task under one
   worker at most; and a worker whose claim is rejected sends nothing more
   for the task: only a worker that has claimed the task writes its status,
   starts the agent program or reports the task. *)
C40_WorkerRunsOnlyClaimed ==
  /\ [](\A t \in TaskIds : Cardinality({r \in Reqs : Holds(r, t)}) <= 1)
  /\ [][\A t \in TaskIds :
          /\ issues[t].agentStatus # "pending" =>
               issues'[t].agentStatus # "pending"
          /\ \A r \in Reqs :
               /\ ~Holds(r, t) /\ Holds(r, t)' =>
                    /\ issues[t].agentStatus = "pending"
                    /\ issues'[t].agentStatus = "assigned"
               /\ reqs[r].task = t /\ reqs'[r] # reqs[r]
                    /\ reqs'[r].op \in {"status", "agent", "complete"} =>
                    Holds(r, t)
               /\ reqs[r].task = t /\ reqs'[r] # reqs[r] /\ reqs[r].op = "claim"
                    /\ reqs[r].pc = "done" /\ reqs[r].result # "success" =>
                    /\ reqs'[r] = IdleReq
                    /\ issues' = issues
       ]_vars

(* both workers saw task 1 pending and sent their claims; one claim was
   rejected and that worker holds nothing, the other runs the agent program *)
C40_Witness ==
  \E r1, r2 \in Reqs :
    /\ reqs[r1].pc = "agent" /\ reqs[r1].task = 1
    /\ reqs[r2].op = "claim" /\ reqs[r2].task = 1 /\ reqs[r2].seen = "pending"
    /\ reqs[r2].pc = "done" /\ reqs[r2].result = "invalid_transition"
    /\ issues[1].agentStatus = "in_progress"

====
